---- MODULE Spec2Model ----
(***************************************************************************)
(* Model of the ECG glove numeric core: the resynchronizing packet decoder *)
(* (glove_decoder.py), the filter stages (ecg_filters.py) and the way      *)
(* EcgGlove builds and drives them (ecg_glove.py).                         *)
(*                                                                         *)
(* Bytes are integers 0..255, byte strings are sequences (index 1 is the   *)
(* Python index 0).  A float64 that is a multiple of 0.5 is written as the *)
(* integer 2*x ("halves"), which is exact for every value the decoder      *)
(* produces from 16-bit samples.                                           *)
(***************************************************************************)
EXTENDS Integers, Sequences, FiniteSets, TLC

VARIABLES
    feed,       \* byte strings the caller still has to pass to decode, in order
    data,       \* argument of the running (or last) decode call
    pos,        \* decode's cursor `pos`
    i,          \* _find_next_packet's cursor `i`
    channels,   \* self.channels: channel index 0..7 -> list of samples
    pc,         \* "idle", "scan", "convert", "returned", "raised"
    leads,      \* value returned by the last decode call (lead name -> halves)
    accepted,   \* history: ECG payloads accepted by the running decode call
    stop,       \* history: why the scan of the running call ended
    calls,      \* history: decode calls started so far
    scen,       \* history: how the input of this behaviour was built
    steps,      \* history: scan loop iterations (line 87) of the running call
    stage,      \* one filter stage object driven on its own
    stage_cfg,  \* the constructor call that builds it: [kind, param]
    stage_in,   \* history: the samples passed to the stage so far
    stage_out,  \* history: the values it returned
    stage_err,  \* "none", or where an exception escaped: "construct", "sample"
    resets,     \* history: clear_values calls made on the stage
    gcfg,       \* the arguments of EcgGlove(...)
    glove,      \* the EcgGlove object: its filter stages and flags
    raw_signals,    \* self.raw_signals, in dict order: <<[name, samples], ...>>
    lead_signals,   \* self.lead_signals, in dict order
    out,        \* _filter_signal's list `out` for the lead being filtered
    gpc         \* "new", "filter", "done", "raised"

decoderVars ==
    <<feed, data, pos, i, channels, pc, leads, accepted, stop, calls, scen, steps>>

stageVars == <<stage, stage_cfg, stage_in, stage_out, stage_err, resets>>

gloveVars == <<gcfg, glove, raw_signals, lead_signals, out, gpc>>

vars == <<decoderVars, stageVars, gloveVars>>

----------------------------------------------------------------------------
(* Packet constants, glove_decoder.py lines 26-31 *)

SYNC_BYTE == 128

HEADER_SIZE == 7

ECG_PACKET_TYPE == 81

FAULT_PACKET_TYPE == 3

ECG_PAYLOAD_SIZE == 81

FAULT_PAYLOAD_SIZE == 10

\* header[1] == 0x17
SOURCE_ADDRESS == 23

\* header[2] == 0x00
TRANSFER_TYPE == 0

\* range(8) in __init__, decode and _decode_ecg_frame
NUM_CHANNELS == 8

\* the frame stride of _decode_ecg_packet: range(0, len(data), 16)
FRAME_SIZE == 16

\* the Python value None of Optional[int] / Optional[GlovePacket]
None == -1

Channels == 0 .. (NUM_CHANNELS - 1)

Min(a, b) == IF a < b THEN a ELSE b

\* data[a:b] of Python (0-based, end exclusive, clipped to the string)
Slice(s, a, b) == SubSeq(s, a + 1, Min(b, Len(s)))

RECURSIVE SumTo(_, _)
SumTo(s, n) == IF n = 0 THEN 0 ELSE s[n] + SumTo(s, n - 1)

\* sum(data)
Sum(s) == SumTo(s, Len(s))

\* _verify_checksum: sum(data) & 0xFF == 0
VerifyChecksum(bytes) == Sum(bytes) % 256 = 0

\* mutant: the header checksum is not verified
DecodeHeaderUnchecked(header) ==
    IF /\ Len(header) = HEADER_SIZE
       /\ header[1] = SYNC_BYTE
       /\ header[2] = SOURCE_ADDRESS
       /\ header[3] = TRANSFER_TYPE
    THEN header[6]
    ELSE None

\* _decode_header: the packet type header[5], or None
DecodeHeader(header) ==
    IF /\ Len(header) = HEADER_SIZE
       /\ header[1] = SYNC_BYTE
       /\ header[2] = SOURCE_ADDRESS
       /\ header[3] = TRANSFER_TYPE
       /\ VerifyChecksum(header)
    THEN header[6]
    ELSE None

\* mutant: the sign conversion of line 63 is left out
DecodeSampleUnsigned(lsb, msb) == msb * 256 + (lsb % 256)

\* value = (msb << 8) | (lsb & 0xFF); if value > 32767: value -= 65536
DecodeSample(lsb, msb) ==
    LET value == msb * 256 + (lsb % 256)
    IN  IF value > 32767 THEN value - 65536 ELSE value

\* mutant: the loop of line 59 stops one channel short
DecodeEcgFrameShort(ch, frame) ==
    [c \in Channels |->
        IF c = NUM_CHANNELS - 1
        THEN ch[c]
        ELSE Append(ch[c], DecodeSample(frame[2 * c + 1], frame[2 * c + 2]))]

\* _decode_ecg_frame: one sample appended to each of the 8 channels
DecodeEcgFrame(ch, frame) ==
    [c \in Channels |->
        Append(ch[c], DecodeSample(frame[2 * c + 1], frame[2 * c + 2]))]

RECURSIVE DecodeFrames(_, _, _)
DecodeFrames(ch, bytes, frame_start) ==
    IF frame_start >= Len(bytes)
    THEN ch
    ELSE LET frame == Slice(bytes, frame_start, frame_start + FRAME_SIZE)
         IN  DecodeFrames(IF Len(frame) = FRAME_SIZE
                          THEN DecodeEcgFrame(ch, frame)
                          ELSE ch,
                          bytes, frame_start + FRAME_SIZE)

\* mutant: the checksum test of line 69 is inverted
DecodeEcgPacketInverted(ch, payload) ==
    IF VerifyChecksum(payload)
    THEN ch
    ELSE DecodeFrames(ch, Slice(payload, 0, Len(payload) - 1), 0)

\* _decode_ecg_packet: the channels after the call
DecodeEcgPacket(ch, payload) ==
    IF ~VerifyChecksum(payload)
    THEN ch
    ELSE DecodeFrames(ch, Slice(payload, 0, Len(payload) - 1), 0)

\* mutant: the elif of lines 108-109 is missing
PayloadSizeEcgOnly(packet_type) ==
    IF packet_type = ECG_PACKET_TYPE THEN ECG_PAYLOAD_SIZE ELSE 0

\* payload_size of _find_next_packet, lines 105-109
PayloadSize(packet_type) ==
    IF packet_type = ECG_PACKET_TYPE THEN ECG_PAYLOAD_SIZE
    ELSE IF packet_type = FAULT_PACKET_TYPE THEN FAULT_PAYLOAD_SIZE
    ELSE 0

\* mutant: a rejected header ends the scan like a truncated one
ScanBranchStopsAtBadHeader(bytes, k) ==
    IF k >= Len(bytes) THEN "end"
    ELSE IF bytes[k + 1] # SYNC_BYTE THEN "skip"
    ELSE IF k + HEADER_SIZE > Len(bytes) THEN "trunc_header"
    ELSE LET packet_type == DecodeHeader(Slice(bytes, k, k + HEADER_SIZE))
         IN  IF packet_type = None THEN "trunc_header"
             ELSE IF k + HEADER_SIZE + PayloadSize(packet_type) > Len(bytes)
                  THEN "trunc_payload"
                  ELSE "packet"

\* Which branch one iteration of _find_next_packet's loop takes at cursor k.
ScanBranch(bytes, k) ==
    IF k >= Len(bytes) THEN "end"
    ELSE IF bytes[k + 1] # SYNC_BYTE THEN "skip"
    ELSE IF k + HEADER_SIZE > Len(bytes) THEN "trunc_header"
    ELSE LET packet_type == DecodeHeader(Slice(bytes, k, k + HEADER_SIZE))
         IN  IF packet_type = None THEN "bad_header"
             ELSE IF k + HEADER_SIZE + PayloadSize(packet_type) > Len(bytes)
                  THEN "trunc_payload"
                  ELSE "packet"

\* mutant: after a payload that fails its checksum the scan resumes right
\* after the header
PacketAtResumesAfterHeader(bytes, k) ==
    LET packet_type == DecodeHeader(Slice(bytes, k, k + HEADER_SIZE))
        packet_end  == k + HEADER_SIZE + PayloadSize(packet_type)
        payload     == Slice(bytes, k + HEADER_SIZE, packet_end)
    IN  [packet_type |-> packet_type,
         payload |-> payload,
         checksum_valid |-> VerifyChecksum(payload),
         packet_end |-> IF VerifyChecksum(payload) THEN packet_end ELSE k + HEADER_SIZE]

\* The GlovePacket returned at cursor k, with packet_end (ScanBranch = "packet").
PacketAt(bytes, k) ==
    LET packet_type == DecodeHeader(Slice(bytes, k, k + HEADER_SIZE))
        packet_end  == k + HEADER_SIZE + PayloadSize(packet_type)
        payload     == Slice(bytes, k + HEADER_SIZE, packet_end)
    IN  [packet_type |-> packet_type,
         payload |-> payload,
         checksum_valid |-> VerifyChecksum(payload),
         packet_end |-> packet_end]

\* decode, line 150: the packet is an ECG packet with a valid payload checksum
Accepts(packet) ==
    packet.packet_type = ECG_PACKET_TYPE /\ packet.checksum_valid

\* decode, lines 150-151: what one returned packet does to the channels
HandlePacket(ch, packet) ==
    IF Accepts(packet)
    THEN DecodeEcgPacket(ch, packet.payload)
    ELSE ch

EmptyChannels == [c \in Channels |-> <<>>]

\* decode, line 156: not any(self.channels.values())
NoData(ch) == \A c \in Channels : ch[c] = <<>>

----------------------------------------------------------------------------
(* decode, lines 159-182: the lead mapping returned to the caller *)

AcquiredLeads == {"I", "II", "V1", "V2", "V3", "V4", "V5", "V6"}

DerivedLeads == {"III", "aVR", "aVL", "aVF"}

\* mutant: channels 1 and 2 are exchanged
LeadChannelSwapped(name) ==
    CASE name = "I"  -> 0
      [] name = "II" -> 2
      [] name = "V1" -> 1
      [] name = "V2" -> 3
      [] name = "V3" -> 4
      [] name = "V4" -> 5
      [] name = "V5" -> 6
      [] name = "V6" -> 7

\* lines 160-169: the channel each acquired lead is read from
LeadChannel(name) ==
    CASE name = "I"  -> 0
      [] name = "II" -> 1
      [] name = "V1" -> 2
      [] name = "V2" -> 3
      [] name = "V3" -> 4
      [] name = "V4" -> 5
      [] name = "V5" -> 6
      [] name = "V6" -> 7

\* np.array(..., dtype=np.float64) of a list of ints, in halves
F64Array(samples) == [k \in 1 .. Len(samples) |-> 2 * samples[k]]

\* mutant: aVR without its minus sign
DerivedSampleUnsigned(name, I, II) ==
    CASE name = "III" -> II - I
      [] name = "aVR" -> (I + II) \div 2
      [] name = "aVL" -> I - (II \div 2)
      [] name = "aVF" -> II - (I \div 2)

\* lines 177-180, element k of a derived lead, in halves
DerivedSample(name, I, II) ==
    CASE name = "III" -> II - I
      [] name = "aVR" -> (-(I + II)) \div 2
      [] name = "aVL" -> I - (II \div 2)
      [] name = "aVF" -> II - (I \div 2)

\* lines 160-182
Leads(ch) ==
    LET arrays     == [n \in AcquiredLeads |-> F64Array(ch[LeadChannel(n)])]
        lens       == [n \in AcquiredLeads |-> Len(arrays[n])]
        min_length == lens[CHOOSE n \in AcquiredLeads :
                              \A m \in AcquiredLeads : lens[n] <= lens[m]]
        cut        == [n \in AcquiredLeads |-> SubSeq(arrays[n], 1, min_length)]
    IN  IF Len(cut["I"]) > 0 /\ Len(cut["II"]) > 0
        THEN [n \in AcquiredLeads \cup DerivedLeads |->
                 IF n \in AcquiredLeads
                 THEN cut[n]
                 ELSE [k \in 1 .. min_length |->
                          DerivedSample(n, cut["I"][k], cut["II"][k])]]
        ELSE cut

\* no mapping: the call raised, or no call has finished yet
NoLeads == [n \in {} |-> <<>>]

----------------------------------------------------------------------------
(* The decoder's operations.  One action per branch of the scan loop of    *)
(* _find_next_packet; the branch that returns a packet also runs decode's  *)
(* handling of it (lines 150-153) and decode's loop test (line 145).       *)

Finished == pc \in {"returned", "raised"}

\* mutant: the channel buffers of the previous call are kept
DecodeKeepsChannels ==
    /\ pc \in {"idle", "returned", "raised"}
    /\ feed # <<>>
    /\ data' = Head(feed)
    /\ feed' = Tail(feed)
    /\ pos' = 0
    /\ i' = 0
    /\ accepted' = 0
    /\ calls' = calls + 1
    /\ pc' = IF 0 < Len(Head(feed)) THEN "scan" ELSE "convert"
    /\ stop' = IF 0 < Len(Head(feed)) THEN "none" ELSE "loop"
    /\ steps' = 0
    /\ UNCHANGED <<channels, leads, scen>>
    /\ UNCHANGED <<stageVars, gloveVars>>

\* decode, lines 140-145: reset, pos = 0, first loop test
Decode ==
    /\ pc \in {"idle", "returned", "raised"}
    /\ feed # <<>>
    /\ data' = Head(feed)
    /\ feed' = Tail(feed)
    /\ channels' = EmptyChannels
    /\ pos' = 0
    /\ i' = 0
    /\ accepted' = 0
    /\ calls' = calls + 1
    /\ pc' = IF 0 < Len(Head(feed)) THEN "scan" ELSE "convert"
    /\ stop' = IF 0 < Len(Head(feed)) THEN "none" ELSE "loop"
    /\ steps' = 0
    /\ UNCHANGED <<leads, scen>>
    /\ UNCHANGED <<stageVars, gloveVars>>

\* mutant: the cursor is not advanced past a byte that is no sync byte
ScanSkipStays ==
    /\ pc = "scan"
    /\ ScanBranch(data, i) = "skip"
    /\ i' = i
    /\ steps' = steps + 1
    /\ UNCHANGED <<feed, data, pos, channels, pc, leads, accepted, stop, calls, scen>>
    /\ UNCHANGED <<stageVars, gloveVars>>

\* lines 89-91: not a sync byte
ScanSkip ==
    /\ pc = "scan"
    /\ ScanBranch(data, i) = "skip"
    /\ i' = i + 1
    /\ steps' = steps + 1
    /\ UNCHANGED <<feed, data, pos, channels, pc, leads, accepted, stop, calls, scen>>
    /\ UNCHANGED <<stageVars, gloveVars>>

\* mutant: the whole rejected header is skipped
ScanBadHeaderSkipsHeader ==
    /\ pc = "scan"
    /\ ScanBranch(data, i) = "bad_header"
    /\ i' = i + HEADER_SIZE
    /\ steps' = steps + 1
    /\ UNCHANGED <<feed, data, pos, channels, pc, leads, accepted, stop, calls, scen>>
    /\ UNCHANGED <<stageVars, gloveVars>>

\* lines 100-102: the 7 bytes at a sync byte are no valid header
ScanBadHeader ==
    /\ pc = "scan"
    /\ ScanBranch(data, i) = "bad_header"
    /\ i' = i + 1
    /\ steps' = steps + 1
    /\ UNCHANGED <<feed, data, pos, channels, pc, leads, accepted, stop, calls, scen>>
    /\ UNCHANGED <<stageVars, gloveVars>>

\* lines 94-95, then 126 and 147-148: too few bytes for a header
ScanTruncHeader ==
    /\ pc = "scan"
    /\ ScanBranch(data, i) = "trunc_header"
    /\ pc' = "convert"
    /\ stop' = "trunc_header"
    /\ steps' = steps + 1
    /\ UNCHANGED <<feed, data, pos, i, channels, leads, accepted, calls, scen>>
    /\ UNCHANGED <<stageVars, gloveVars>>

\* mutant: an incomplete packet is reported as a decode error
ScanTruncPayloadRaises ==
    /\ pc = "scan"
    /\ ScanBranch(data, i) = "trunc_payload"
    /\ pc' = "raised"
    /\ stop' = "trunc_payload"
    /\ channels' = EmptyChannels
    /\ steps' = steps + 1
    /\ UNCHANGED <<feed, data, pos, i, leads, accepted, calls, scen>>
    /\ UNCHANGED <<stageVars, gloveVars>>

\* lines 112-114, then 126 and 147-148: the payload runs past the end
ScanTruncPayload ==
    /\ pc = "scan"
    /\ ScanBranch(data, i) = "trunc_payload"
    /\ pc' = "convert"
    /\ stop' = "trunc_payload"
    /\ steps' = steps + 1
    /\ UNCHANGED <<feed, data, pos, i, channels, leads, accepted, calls, scen>>
    /\ UNCHANGED <<stageVars, gloveVars>>

\* line 87 false, then 126 and 147-148: the scan ran off the end
ScanEnd ==
    /\ pc = "scan"
    /\ ScanBranch(data, i) = "end"
    /\ pc' = "convert"
    /\ stop' = "end"
    /\ UNCHANGED <<feed, data, pos, i, channels, leads, accepted, calls, scen, steps>>
    /\ UNCHANGED <<stageVars, gloveVars>>

\* mutant: after a header of unknown subtype the scan resumes at its second byte
ScanPacketRescansUnknown ==
    /\ pc = "scan"
    /\ ScanBranch(data, i) = "packet"
    /\ LET packet == PacketAt(data, i)
           next   == IF packet.packet_type \in {ECG_PACKET_TYPE, FAULT_PACKET_TYPE}
                     THEN packet.packet_end
                     ELSE i + 1
       IN  /\ channels' = HandlePacket(channels, packet)
           /\ accepted' = IF Accepts(packet) THEN accepted + 1 ELSE accepted
           /\ pos' = next
           /\ i' = next
           /\ pc' = IF next < Len(data) THEN "scan" ELSE "convert"
           /\ stop' = IF next < Len(data) THEN "none" ELSE "loop"
    /\ steps' = steps + 1
    /\ UNCHANGED <<feed, data, leads, calls, scen>>
    /\ UNCHANGED <<stageVars, gloveVars>>

\* lines 116-122 return a packet; decode lines 150-153, then the test of 145
ScanPacket ==
    /\ pc = "scan"
    /\ ScanBranch(data, i) = "packet"
    /\ LET packet == PacketAt(data, i)
       IN  /\ channels' = HandlePacket(channels, packet)
           /\ accepted' = IF Accepts(packet) THEN accepted + 1 ELSE accepted
           /\ pos' = packet.packet_end
           /\ i' = packet.packet_end
           /\ pc' = IF packet.packet_end < Len(data) THEN "scan" ELSE "convert"
           /\ stop' = IF packet.packet_end < Len(data) THEN "none" ELSE "loop"
    /\ steps' = steps + 1
    /\ UNCHANGED <<feed, data, leads, calls, scen>>
    /\ UNCHANGED <<stageVars, gloveVars>>

\* lines 156-157
ConvertRaise ==
    /\ pc = "convert"
    /\ NoData(channels)
    /\ pc' = "raised"
    /\ leads' = NoLeads
    /\ UNCHANGED <<feed, data, pos, i, channels, accepted, stop, calls, scen, steps>>
    /\ UNCHANGED <<stageVars, gloveVars>>

\* lines 159-182
ConvertReturn ==
    /\ pc = "convert"
    /\ ~NoData(channels)
    /\ pc' = "returned"
    /\ leads' = Leads(channels)
    /\ UNCHANGED <<feed, data, pos, i, channels, accepted, stop, calls, scen, steps>>
    /\ UNCHANGED <<stageVars, gloveVars>>

\* The channels one whole decode call leaves behind, from cursor k on.
RECURSIVE RunScan(_, _, _)
RunScan(bytes, k, ch) ==
    LET branch == ScanBranch(bytes, k)
    IN  IF branch \in {"skip", "bad_header"}
        THEN RunScan(bytes, k + 1, ch)
        ELSE IF branch = "packet"
        THEN RunScan(bytes, PacketAt(bytes, k).packet_end,
                     HandlePacket(ch, PacketAt(bytes, k)))
        ELSE ch

DecodeWhole(bytes) == RunScan(bytes, 0, EmptyChannels)

----------------------------------------------------------------------------
(* The byte streams the decoder is run on.  A stream is built from ECG     *)
(* packets with known samples, an insertion between the first two packets, *)
(* a single changed byte, a cut into two chunks, or a truncation.          *)

\* longest stream of valid ECG packets decoded for the round trip
MaxPackets == 2

\* the checksum byte that makes sum(bytes + [byte]) & 0xFF == 0
ChecksumByte(bytes) == (256 - (Sum(bytes) % 256)) % 256

MakeHeader(subtype) ==
    LET h == <<SYNC_BYTE, SOURCE_ADDRESS, TRANSFER_TYPE, 0, 0, subtype>>
    IN  Append(h, ChecksumByte(h))

\* two bytes per sample, least significant byte first, two's complement
EncodeSample(v) ==
    LET u == v % 65536
    IN  <<u % 256, u \div 256>>

Frames == 0 .. (((ECG_PAYLOAD_SIZE - 1) \div FRAME_SIZE) - 1)

PacketKinds == {1, 2, 3, 4}

BoundarySamples == <<-32768, -1, 0, 1, 32767, -128, 255, 256, -32767, 128>>

\* The sample of frame f, channel c in a packet of kind k.
\*   1: small distinct positive values
\*   2: the 16-bit boundary values, negative ones included
\*   3: frame 0 spells the bytes of a valid ECG header, 80 17 00 00 00 51 18
\*   4: frame 0 spells the bytes of a valid fault header, 80 17 00 00 00 03 66
PacketSample(k, f, c) ==
    CASE k = 1 -> 100 + 10 * f + c
      [] k = 2 -> BoundarySamples[((3 * f + c) % Len(BoundarySamples)) + 1]
      [] k = 3 -> IF f = 0
                  THEN <<6016, 0, 20736, 24, -1, 7, 128, -32768>>[c + 1]
                  ELSE -(1000 * f + c)
      [] k = 4 -> IF f = 0
                  THEN <<6016, 0, 768, 102, 5, -6, 32767, 0>>[c + 1]
                  ELSE 2000 * f + 300 * c

\* what channel c must hold after a packet of kind k alone
ChannelSamples(k, c) ==
    [n \in 1 .. Cardinality(Frames) |-> PacketSample(k, n - 1, c)]

PayloadData(k) ==
    [n \in 1 .. (Cardinality(Frames) * FRAME_SIZE) |->
        EncodeSample(PacketSample(k, (n - 1) \div FRAME_SIZE,
                                  ((n - 1) % FRAME_SIZE) \div 2))[((n - 1) % 2) + 1]]

EcgPacket(k) ==
    MakeHeader(ECG_PACKET_TYPE) \o PayloadData(k) \o <<ChecksumByte(PayloadData(k))>>

RECURSIVE ConcatPackets(_)
ConcatPackets(kinds) ==
    IF kinds = <<>> THEN <<>>
    ELSE EcgPacket(Head(kinds)) \o ConcatPackets(Tail(kinds))

RECURSIVE ConcatSamples(_, _)
ConcatSamples(kinds, c) ==
    IF kinds = <<>> THEN <<>>
    ELSE ChannelSamples(Head(kinds), c) \o ConcatSamples(Tail(kinds), c)

\* what the channels must hold after the packets of these kinds, in order
ExpectedChannels(kinds) == [c \in Channels |-> ConcatSamples(kinds, c)]

Repeat(byte, n) == [k \in 1 .. n |-> byte]

\* a payload of ECG size whose checksum byte is wrong
BadPayload == PayloadData(1) \o <<(ChecksumByte(PayloadData(1)) + 1) % 256>>

\* A valid header of unknown subtype 0x00 whose reserved bytes 3 and 4 are
\* 0x80, 0x17, so that its bytes 3..6 and the 3 bytes after it spell a valid
\* ECG header; a valid ECG payload follows.
NestedPacket ==
    LET outer == <<SYNC_BYTE, SOURCE_ADDRESS, TRANSFER_TYPE,
                   SYNC_BYTE, SOURCE_ADDRESS, TRANSFER_TYPE>>
        h     == Append(outer, ChecksumByte(outer))
        inner == SubSeq(h, 4, 7) \o <<0, ECG_PACKET_TYPE>>
    IN  h \o <<0, ECG_PACKET_TYPE, ChecksumByte(inner)>>
          \o PayloadData(1) \o <<ChecksumByte(PayloadData(1))>>

\* What is inserted between the first and the second packet.  Only the last
\* insertion holds a complete valid ECG packet.
Insertions ==
    << <<>>,
       <<SYNC_BYTE>>,
       <<SYNC_BYTE, SYNC_BYTE, SYNC_BYTE>>,
       <<0, 255, SOURCE_ADDRESS, 1, 127>>,
       <<SYNC_BYTE, SOURCE_ADDRESS, TRANSFER_TYPE>>,
       <<SYNC_BYTE, SOURCE_ADDRESS, TRANSFER_TYPE, 0, 0, ECG_PACKET_TYPE, 0>>,
       MakeHeader(7),
       MakeHeader(FAULT_PACKET_TYPE) \o Repeat(0, FAULT_PAYLOAD_SIZE),
       MakeHeader(FAULT_PACKET_TYPE) \o Repeat(SYNC_BYTE, FAULT_PAYLOAD_SIZE),
       MakeHeader(FAULT_PACKET_TYPE) \o MakeHeader(ECG_PACKET_TYPE) \o <<1, 2, 3>>,
       MakeHeader(FAULT_PACKET_TYPE) \o <<9, 9, 9>> \o MakeHeader(FAULT_PACKET_TYPE),
       MakeHeader(ECG_PACKET_TYPE) \o BadPayload,
       MakeHeader(ECG_PACKET_TYPE),
       MakeHeader(FAULT_PACKET_TYPE),
       <<SYNC_BYTE>> \o MakeHeader(ECG_PACKET_TYPE),
       NestedPacket >>

\* the insertions that are one complete fault packet: a valid header of
\* subtype 0x03 and 10 payload bytes
FaultInsertions == {8, 9, 10, 11}

\* the insertions in which no 7 bytes, alone or with the bytes that follow
\* them in the stream, form an accepted ECG or fault header that is not the
\* header of a complete packet of the insertion
HeaderFreeInsertions == 1 .. 12

FlipDeltas == {1, 128, 255}

Scenario(kind, kinds, ins, at, delta) ==
    [kind |-> kind, kinds |-> kinds, ins |-> ins, at |-> at, delta |-> delta]

\* the stream before it is changed, cut or truncated
BaseStream(sc) ==
    EcgPacket(sc.kinds[1]) \o Insertions[sc.ins] \o ConcatPackets(Tail(sc.kinds))

\* the stream with byte `at` (1-based) changed by delta
Flipped(bytes, at, delta) ==
    [bytes EXCEPT ![at] = (bytes[at] + delta) % 256]

KindSeqs(n) == [1 .. n -> PacketKinds]

Scenarios ==
    {Scenario("clean", ks, 1, 0, 0) :
        ks \in UNION {KindSeqs(n) : n \in 1 .. MaxPackets}}
    \cup {Scenario("resync", <<a, b>>, g, 0, 0) :
            a \in {1}, b \in {2}, g \in 1 .. Len(Insertions)}
    \cup {Scenario("flip", <<a, 2>>, 1, at, d) :
            a \in {1, 3}, at \in 1 .. 2 * (HEADER_SIZE + ECG_PAYLOAD_SIZE),
            d \in FlipDeltas}
    \cup {Scenario("trunc", <<1, 2>>, g, at, 0) :
            g \in {1, 8, 7}, at \in 0 .. 2 * (HEADER_SIZE + ECG_PAYLOAD_SIZE)}
    \cup {Scenario("chunk", <<a, 2>>, 1, at, 0) :
            a \in {1, 3}, at \in 0 .. 2 * (HEADER_SIZE + ECG_PAYLOAD_SIZE)}

\* the successive arguments of decode in a scenario
Feed(sc) ==
    LET base == BaseStream(sc)
    IN  CASE sc.kind = "flip"  -> <<Flipped(base, sc.at, sc.delta)>>
          [] sc.kind = "trunc" -> <<SubSeq(base, 1, Min(sc.at, Len(base)))>>
          [] sc.kind = "chunk" -> <<SubSeq(base, 1, sc.at),
                                    SubSeq(base, sc.at + 1, Len(base))>>
          [] OTHER -> <<base>>

\* __init__, lines 33-36, and the caller's input
DecoderInit ==
    /\ scen \in Scenarios
    /\ feed = Feed(scen)
    /\ data = <<>>
    /\ pos = 0
    /\ i = 0
    /\ channels = EmptyChannels
    /\ pc = "idle"
    /\ leads = NoLeads
    /\ accepted = 0
    /\ steps = 0
    /\ stop = "none"
    /\ calls = 0

DecoderNext ==
    \/ Decode
    \/ ScanSkip
    \/ ScanBadHeader
    \/ ScanTruncHeader
    \/ ScanTruncPayload
    \/ ScanEnd
    \/ ScanPacket
    \/ ConvertRaise
    \/ ConvertReturn

----------------------------------------------------------------------------
(* Filter stages, ecg_filters.py.                                          *)
(*                                                                         *)
(* A float is written in fixed point, as the integer 1000*x (Unit = 1000): *)
(* the coefficients of the stages are rounded to three decimals and each   *)
(* product is truncated to a multiple of 1/1000.  The integers of          *)
(* MorphologyFilter are plain integers.  The four coefficient tables of    *)
(* NotchEcgFilter (169, 159, 197 and 139 taps) are data: the model keeps   *)
(* NotchTaps taps of each, from its centre tap on.                         *)

Unit == 10 * 10 * 10

\* taps kept of each notch coefficient table
NotchTaps == 3

\* longest input sequence passed to a stage driven on its own
MaxSamples == 9

\* clear_values calls made on one HiPassFilter
MaxResets == 2

\* integer division that truncates toward zero, as int() and C-style casts do
Trunc(n, d) == IF n >= 0 THEN n \div d ELSE -((-n) \div d)

\* the fixed-point product of two fixed-point numbers
FixMul(a, b) == Trunc(a * b, Unit)

\* int(y) of a float
ToInt(y) == Trunc(y, Unit)

\* float(n) of an int
ToFloat(n) == n * Unit

\* the constructor raised: there is no object
Raised == [kind |-> "raised"]

\* what a per-sample call leaves: the stage after it and the value returned,
\* or the exception flag
Result(st, val) == [st |-> st, val |-> val, raised |-> FALSE]

Throw(st) == [st |-> st, val |-> 0, raised |-> TRUE]

\* collections.deque(maxlen=maxlen).append(x)
DequeAppend(buffer, maxlen, x) ==
    IF maxlen = 0 THEN buffer
    ELSE IF Len(buffer) = maxlen THEN Append(Tail(buffer), x)
    ELSE Append(buffer, x)

\* Buffer.__init__
BufferNew(buffersize) ==
    [buffersize |-> buffersize, buffer |-> <<>>, filled |-> FALSE]

\* Buffer.add
BufferAdd(b, x) ==
    LET buffer == DequeAppend(b.buffer, b.buffersize, x)
    IN  [b EXCEPT !.buffer = buffer,
                  !.filled = b.filled \/ Len(buffer) = b.buffersize]

\* Buffer.fill
BufferFill(b) == b.filled \/ Len(b.buffer) = b.buffersize

\* sorted(values)[k], k counted from 0
SortedAt(values, k) ==
    LET idx == DOMAIN values
    IN  values[CHOOSE n \in idx :
                  /\ Cardinality({m \in idx : values[m] < values[n]}) <= k
                  /\ Cardinality({m \in idx : values[m] <= values[n]}) > k]

\* The pairs (o, p), |o| <= 40 and |p| <= 40, for which the double
\* 0.7 * o + 0.3 * p lies just below the integer (7 * o + 3 * p) / 10, so that
\* int() of it is one nearer to zero than the exact quotient.
RoundsBelow(o) ==
    CASE o = 1000 -> {}
       [] o = -39 -> {-9, 1, 11, 21}
       [] o = -38 -> {-18, -8, 2}
       [] o = -37 -> {33}
       [] o = -34 -> {-24, -14, -4, 6, 16, 26, 36}
       [] o = -33 -> {-23, -13, -3, 7, 27, 37}
       [] o = -32 -> {28, 38}
       [] o = -29 -> {-39, -29, -19, -9, 1, 11, 21, 31}
       [] o = -28 -> {-18, -8, 2, 12, 22, 32}
       [] o = -27 -> {13, 33}
       [] o = -24 -> {-34, -24, -14, -4, 6, 16, 26, 36}
       [] o = -23 -> {-23, -13, -3, 7, 17, 27, 37}
       [] o = -22 -> {-2, 8, 28, 38}
       [] o = -19 -> {-9, 1, 21}
       [] o = -17 -> {-7, 3, 13, 23, 33}
       [] o = -16 -> {14}
       [] o = -14 -> {-4, 6, 16, 26}
       [] o = -12 -> {-22, -12, -2, 8, 18}
       [] o = -11 -> {-1, 19}
       [] o = -9 -> {31}
       [] o = -7 -> {3, 13}
       [] o = -6 -> {-36, -6, 4}
       [] o = -4 -> {36}
       [] o = -3 -> {-3}
       [] o = -2 -> {18}
       [] o = -1 -> {-31, 9, 29}
       [] o = 1 -> {-29, -9, 31}
       [] o = 2 -> {-18}
       [] o = 3 -> {3}
       [] o = 4 -> {-36}
       [] o = 6 -> {-4, 6, 36}
       [] o = 7 -> {-13, -3}
       [] o = 9 -> {-31}
       [] o = 11 -> {-19, 1}
       [] o = 12 -> {-18, -8, 2, 12, 22}
       [] o = 14 -> {-26, -16, -6, 4}
       [] o = 16 -> {-14}
       [] o = 17 -> {-33, -23, -13, -3, 7}
       [] o = 19 -> {-21, -1, 9}
       [] o = 22 -> {-38, -28, -8, 2}
       [] o = 23 -> {-37, -27, -17, -7, 3, 13, 23}
       [] o = 24 -> {-36, -26, -16, -6, 4, 14, 24, 34}
       [] o = 27 -> {-33, -13}
       [] o = 28 -> {-32, -22, -12, -2, 8, 18}
       [] o = 29 -> {-31, -21, -11, -1, 9, 19, 29, 39}
       [] o = 32 -> {-38, -28}
       [] o = 33 -> {-37, -27, -7, 3, 13, 23}
       [] o = 34 -> {-36, -26, -16, -6, 4, 14, 24}
       [] o = 37 -> {-33}
       [] o = 38 -> {-2, 8, 18}
       [] o = 39 -> {-21, -11, -1, 9}
       [] OTHER -> {}

\* int(0.7 * output + 0.3 * previous_output), line 59
SmoothedOutput(output, previous_output) ==
    LET exact == 7 * output + 3 * previous_output
        q     == Trunc(exact, 10)
    IN  IF previous_output \in RoundsBelow(output)
        THEN (IF exact > 0 THEN q - 1 ELSE q + 1)
        ELSE q

\* MorphologyFilter.__init__
MorphologyFilter == [kind |-> "morph", buffer |-> BufferNew(8), previous_output |-> 0]

\* mutant: median_idx is one too low, the lower of the two middle values
ComputeHpfLowerMedian(m, sample) ==
    LET buffer == BufferAdd(m.buffer, sample)
    IN  IF ~BufferFill(buffer)
        THEN Result([m EXCEPT !.buffer = buffer], sample)
        ELSE LET median_value == SortedAt(buffer.buffer, Len(buffer.buffer) \div 2 - 1)
                 output == sample - median_value
                 smoothed_output == SmoothedOutput(output, m.previous_output)
             IN  Result([m EXCEPT !.buffer = buffer,
                                   !.previous_output = smoothed_output],
                        smoothed_output)

\* MorphologyFilter.compute_hpf: the stage after the call and the value returned
ComputeHpf(m, sample) ==
    LET buffer == BufferAdd(m.buffer, sample)
    IN  IF ~BufferFill(buffer)
        THEN Result([m EXCEPT !.buffer = buffer], sample)
        ELSE LET median_value == SortedAt(buffer.buffer, Len(buffer.buffer) \div 2)
                 output == sample - median_value
                 smoothed_output == SmoothedOutput(output, m.previous_output)
             IN  Result([m EXCEPT !.buffer = buffer,
                                   !.previous_output = smoothed_output],
                        smoothed_output)

NotchFrequencies == {50, 60, 100, 120}

\* mutant: an unknown frequency falls back to the 50 Hz table
NotchTableDefault50(freq) ==
    CASE freq = 60  -> SubSeq(<<961, -27, 0, 27, 38, 27>>, 1, NotchTaps)
      [] freq = 100 -> SubSeq(<<976, -7, 19, 19, -8, -24>>, 1, NotchTaps)
      [] freq = 120 -> SubSeq(<<970, -2, 30, 7, -29, -11>>, 1, NotchTaps)
      [] OTHER -> SubSeq(<<974, -21, -7, 9, 22, 26>>, 1, NotchTaps)

\* the centre tap and the taps after it of _AR_NOTCH_50, _60, _100, _120
NotchTable(freq) ==
    CASE freq = 50  -> SubSeq(<<974, -21, -7, 9, 22, 26>>, 1, NotchTaps)
      [] freq = 60  -> SubSeq(<<961, -27, 0, 27, 38, 27>>, 1, NotchTaps)
      [] freq = 100 -> SubSeq(<<976, -7, 19, 19, -8, -24>>, 1, NotchTaps)
      [] freq = 120 -> SubSeq(<<970, -2, 30, 7, -29, -11>>, 1, NotchTaps)
      [] OTHER -> <<>>

\* NotchEcgFilter.__init__; indx counts from 0 as in the code
NotchEcgFilter(freq) ==
    [kind |-> "notch",
     freq |-> freq,
     ar_notch |-> NotchTable(freq),
     max_notch |-> Len(NotchTable(freq)),
     ar_result |-> [k \in 1 .. Len(NotchTable(freq)) |-> 0],
     indx |-> 0]

\* the accumulation loop of get_new_val, lines 761-767, from coefficient k on
RECURSIVE NotchAcc(_, _, _, _)
NotchAcc(ar_notch, ar_result, idx, k) ==
    IF k > Len(ar_notch) THEN 0
    ELSE FixMul(ar_result[idx + 1], ar_notch[k])
         + NotchAcc(ar_notch, ar_result,
                    IF idx - 1 < 0 THEN Len(ar_notch) - 1 ELSE idx - 1, k + 1)

\* mutant: the inner product is taken before the sample is stored
NotchGetNewValStale(n, val) ==
    IF n.max_notch = 0
    THEN Result(n, val)
    ELSE LET ar_result == [n.ar_result EXCEPT ![n.indx + 1] = val]
         IN  Result([n EXCEPT !.ar_result = ar_result,
                               !.indx = (n.indx + 1) % n.max_notch],
                    NotchAcc(n.ar_notch, n.ar_result, n.indx, 1))

\* NotchEcgFilter.get_new_val
NotchGetNewVal(n, val) ==
    IF n.max_notch = 0
    THEN Result(n, val)
    ELSE LET ar_result == [n.ar_result EXCEPT ![n.indx + 1] = val]
         IN  Result([n EXCEPT !.ar_result = ar_result,
                               !.indx = (n.indx + 1) % n.max_notch],
                    NotchAcc(n.ar_notch, ar_result, n.indx, 1))

\* [f for f in frequencies if f in [50, 60, 100, 120]]
RECURSIVE ValidFrequencies(_)
ValidFrequencies(frequencies) ==
    IF frequencies = <<>> THEN <<>>
    ELSE IF Head(frequencies) \in NotchFrequencies
    THEN <<Head(frequencies)>> \o ValidFrequencies(Tail(frequencies))
    ELSE ValidFrequencies(Tail(frequencies))

\* MultiNotchFilter.__init__
MultiNotchFilter(frequencies) ==
    LET valid == ValidFrequencies(frequencies)
    IN  [kind |-> "multinotch",
         filters |-> [k \in 1 .. Len(valid) |-> NotchEcgFilter(valid[k])]]

\* MultiNotchFilter.get_new_val, from filter k on
RECURSIVE MultiNotchFrom(_, _, _)
MultiNotchFrom(m, result, k) ==
    IF k > Len(m.filters)
    THEN Result(m, result)
    ELSE LET r == NotchGetNewVal(m.filters[k], result)
         IN  MultiNotchFrom([m EXCEPT !.filters[k] = r.st], r.val, k + 1)

MultiNotchGetNewVal(m, val) == MultiNotchFrom(m, val, 1)

HPFilterTypes == {"HP005", "HP015", "HP05"}

\* HiPassFilter.__init__: HP0, HP1 and GAIN of the type; ValueError otherwise
HiPassFilter(filter_type) ==
    IF filter_type \notin HPFilterTypes
    THEN Raised
    ELSE [kind |-> "hipass",
          HP0  |-> CASE filter_type = "HP05"  -> -988
                     [] filter_type = "HP015" -> -996
                     [] filter_type = "HP005" -> -999,
          HP1  |-> CASE filter_type = "HP05"  -> 1988
                     [] filter_type = "HP015" -> 1996
                     [] filter_type = "HP005" -> 1999,
          GAIN |-> CASE filter_type = "HP05"  -> 1006
                     [] filter_type = "HP015" -> 1002
                     [] filter_type = "HP005" -> 1001,
          xv |-> <<0, 0, 0>>,
          yv |-> <<0, 0, 0>>]

\* mutant: clear_values zeroes the input history only
ClearValuesInputs(h) == [h EXCEPT !.xv = <<0, 0, 0>>]

\* HiPassFilter.clear_values
ClearValues(h) == [h EXCEPT !.xv = <<0, 0, 0>>, !.yv = <<0, 0, 0>>]

\* HiPassFilter.get_new_val, with insert_new_val
HiPassGetNewVal(h, val) ==
    LET xv == <<h.xv[2], h.xv[3], Trunc(val * Unit, h.GAIN)>>
        y2 == (xv[1] + xv[3]) - 2 * xv[2]
              + FixMul(h.HP0, h.yv[2]) + FixMul(h.HP1, h.yv[3])
    IN  Result([h EXCEPT !.xv = xv, !.yv = <<h.yv[2], h.yv[3], y2>>],
               y2)

\* BaselineFilter.__init__: cutoff in mHz; 1.0 / (2 * 3.14159 * cutoff_hz) and
\* 1.0 / sampling_rate raise ZeroDivisionError on a zero divisor.
\* alpha = rc / (rc + dt) = sampling_rate / (sampling_rate + 2 * 3.14159 * cutoff_hz)
BaselineFilter(cutoff_mhz, sampling_rate) ==
    IF cutoff_mhz = 0 \/ sampling_rate = 0
    THEN Raised
    ELSE [kind |-> "baseline",
          alpha |-> Trunc(Unit * Unit * sampling_rate,
                          Unit * sampling_rate + Trunc(628318 * cutoff_mhz, 100000)),
          prev_input |-> 0,
          prev_output |-> 0]

\* BaselineFilter.get_new_val
BaselineGetNewVal(b, val) ==
    LET output == FixMul(b.alpha, b.prev_output + val - b.prev_input)
    IN  Result([b EXCEPT !.prev_input = val, !.prev_output = output],
               output)

\* SmoothingFilter.__init__: deque(maxlen=window_size) raises ValueError on a
\* negative maxlen
SmoothingFilter(window_size) ==
    IF window_size < 0
    THEN Raised
    ELSE [kind |-> "smoothing", window_size |-> window_size, buffer |-> <<>>]

\* mutant: the sum is divided by window_size, also while the buffer fills
SmoothingGetNewValFixedDivisor(f, val) ==
    LET buffer == DequeAppend(f.buffer, f.window_size, val)
    IN  IF Len(buffer) = 0
        THEN Throw(f)
        ELSE Result([f EXCEPT !.buffer = buffer],
                    Trunc(Sum(buffer), f.window_size))

\* SmoothingFilter.get_new_val: sum(buffer) / len(buffer) raises
\* ZeroDivisionError on an empty buffer
SmoothingGetNewVal(f, val) ==
    LET buffer == DequeAppend(f.buffer, f.window_size, val)
    IN  IF Len(buffer) = 0
        THEN Throw(f)
        ELSE Result([f EXCEPT !.buffer = buffer],
                    Trunc(Sum(buffer), Len(buffer)))

----------------------------------------------------------------------------
(* A filter stage driven on its own: one constructor call, then per-sample *)
(* calls with samples from a small set.                                    *)

StageSamples == {-7, 12}

StageConfigs ==
    {[kind |-> "notch", param |-> f] : f \in NotchFrequencies \cup {0, 55}}
    \cup {[kind |-> "multinotch", param |-> fs] :
            fs \in {<<50, 60>>, <<60, 55, 100>>, <<>>}}
    \cup {[kind |-> "morph", param |-> 0]}
    \cup {[kind |-> "hipass", param |-> t] : t \in HPFilterTypes \cup {"HP10"}}
    \cup {[kind |-> "baseline", param |-> c] : c \in {0, 500}}
    \cup {[kind |-> "smoothing", param |-> w] : w \in {0, 1, 3, 5}}

Unbuilt == [kind |-> "unbuilt"]

\* BaselineFilter's default sampling_rate
DEFAULT_SAMPLING_RATE == 500

StageIdle ==
    /\ stage = Unbuilt
    /\ stage_cfg = [kind |-> "none", param |-> 0]
    /\ stage_in = <<>>
    /\ stage_out = <<>>
    /\ stage_err = "none"
    /\ resets = 0

Construct(kind, object) ==
    /\ stage = Unbuilt
    /\ stage_cfg.kind = kind
    /\ stage' = object
    /\ stage_err' = IF object = Raised THEN "construct" ELSE "none"
    /\ UNCHANGED <<stage_cfg, stage_in, stage_out, resets>>
    /\ UNCHANGED <<decoderVars, gloveVars>>

ConstructNotch == Construct("notch", NotchEcgFilter(stage_cfg.param))

ConstructMultiNotch == Construct("multinotch", MultiNotchFilter(stage_cfg.param))

ConstructMorphology == Construct("morph", MorphologyFilter)

ConstructHiPass == Construct("hipass", HiPassFilter(stage_cfg.param))

ConstructBaseline ==
    Construct("baseline", BaselineFilter(stage_cfg.param, DEFAULT_SAMPLING_RATE))

ConstructSmoothing == Construct("smoothing", SmoothingFilter(stage_cfg.param))

\* one per-sample call on the stage: sample x, result r
Sampled(x, r) ==
    /\ stage' = r.st
    /\ stage_in' = Append(stage_in, x)
    /\ stage_out' = IF r.raised THEN stage_out ELSE Append(stage_out, r.val)
    /\ stage_err' = IF r.raised THEN "sample" ELSE "none"
    /\ UNCHANGED <<stage_cfg, resets>>
    /\ UNCHANGED <<decoderVars, gloveVars>>

CanSample(kind) ==
    /\ stage.kind = kind
    /\ stage_err = "none"
    /\ Len(stage_in) < MaxSamples

SampleNotch ==
    /\ CanSample("notch")
    /\ \E x \in StageSamples : Sampled(x, NotchGetNewVal(stage, ToFloat(x)))

SampleMultiNotch ==
    /\ CanSample("multinotch")
    /\ \E x \in StageSamples : Sampled(x, MultiNotchGetNewVal(stage, ToFloat(x)))

SampleMorphology ==
    /\ CanSample("morph")
    /\ \E x \in StageSamples :
          LET r == ComputeHpf(stage, x)
          IN  Sampled(x, Result(r.st, ToFloat(r.val)))

SampleHiPass ==
    /\ CanSample("hipass")
    /\ \E x \in StageSamples : Sampled(x, HiPassGetNewVal(stage, ToFloat(x)))

SampleBaseline ==
    /\ CanSample("baseline")
    /\ \E x \in StageSamples : Sampled(x, BaselineGetNewVal(stage, ToFloat(x)))

SampleSmoothing ==
    /\ CanSample("smoothing")
    /\ \E x \in StageSamples : Sampled(x, SmoothingGetNewVal(stage, ToFloat(x)))

\* HiPassFilter.clear_values, then a new trial
ResetHiPass ==
    /\ stage.kind = "hipass"
    /\ stage_in # <<>>
    /\ resets < MaxResets
    /\ stage' = ClearValues(stage)
    /\ stage_in' = <<>>
    /\ stage_out' = <<>>
    /\ resets' = resets + 1
    /\ UNCHANGED <<stage_cfg, stage_err>>
    /\ UNCHANGED <<decoderVars, gloveVars>>

StageNext ==
    \/ ConstructNotch
    \/ ConstructMultiNotch
    \/ ConstructMorphology
    \/ ConstructHiPass
    \/ ConstructBaseline
    \/ ConstructSmoothing
    \/ SampleNotch
    \/ SampleMultiNotch
    \/ SampleMorphology
    \/ SampleHiPass
    \/ SampleBaseline
    \/ SampleSmoothing
    \/ ResetHiPass

----------------------------------------------------------------------------
(* EcgGlove, ecg_glove.py: the stages it builds (__init__, lines 65-92),   *)
(* _filter_signal (lines 277-307) and decode_data (lines 126-143).          *)

\* the attribute was never set: hasattr(self, ...) is False
Absent == [kind |-> "absent"]

\* BaselineFilter's default cutoff_hz = 0.5, in mHz
DEFAULT_CUTOFF_MHZ == 500

\* lines 74-83: the notch stage
BuildNotch(filters, powerline_freq) ==
    IF Len(filters) > 1
    THEN LET valid_notch_freqs == ValidFrequencies(filters)
         IN  IF valid_notch_freqs # <<>>
             THEN MultiNotchFilter(valid_notch_freqs)
             ELSE NotchEcgFilter(powerline_freq)
    ELSE NotchEcgFilter(powerline_freq)

\* EcgGlove.__init__: the object, or Raised when a constructor raised
EcgGlove(cfg) ==
    LET hp_filter == HiPassFilter(cfg.hp_filter_type)
        baseline_filter ==
            IF cfg.enable_baseline_correction
            THEN BaselineFilter(DEFAULT_CUTOFF_MHZ, cfg.sampling_rate)
            ELSE Absent
        smoothing_filter ==
            IF cfg.enable_smoothing
            THEN SmoothingFilter(cfg.smoothing_window)
            ELSE Absent
    IN  IF Raised \in {hp_filter, baseline_filter, smoothing_filter}
        THEN Raised
        ELSE [kind |-> "glove",
              spike_removal |-> cfg.spike_removal,
              enable_baseline_correction |-> cfg.enable_baseline_correction,
              enable_smoothing |-> cfg.enable_smoothing,
              hp_filter |-> hp_filter,
              notch |-> BuildNotch(cfg.filters, cfg.powerline_freq),
              morph |-> MorphologyFilter,
              baseline_filter |-> baseline_filter,
              smoothing_filter |-> smoothing_filter]

\* self.notch.get_new_val(y): either class
NotchStage(notch, y) ==
    IF notch.kind = "multinotch"
    THEN MultiNotchGetNewVal(notch, y)
    ELSE NotchGetNewVal(notch, y)

\* mutant: the notch runs on the raw sample and the baseline correction on
\* the notch's output
FilterSampleNotchFirst(g, x) ==
    LET s2 == NotchStage(g.notch, x)
        s1 == IF g.enable_baseline_correction /\ g.baseline_filter # Absent
              THEN BaselineGetNewVal(g.baseline_filter, s2.val)
              ELSE Result(g.baseline_filter, s2.val)
        s3 == IF g.spike_removal
              THEN LET r == ComputeHpf(g.morph, ToInt(s1.val))
                   IN  Result(r.st, ToFloat(r.val))
              ELSE HiPassGetNewVal(g.hp_filter, s1.val)
        s4 == IF g.enable_smoothing /\ g.smoothing_filter # Absent
              THEN SmoothingGetNewVal(g.smoothing_filter, s3.val)
              ELSE Result(g.smoothing_filter, s3.val)
        after == [g EXCEPT !.baseline_filter = s1.st,
                           !.notch = s2.st,
                           !.morph = IF g.spike_removal THEN s3.st ELSE g.morph,
                           !.hp_filter = IF g.spike_removal THEN g.hp_filter ELSE s3.st,
                           !.smoothing_filter = s4.st]
    IN  IF s4.raised THEN Throw(after) ELSE Result(after, s4.val)

\* mutant: the high-pass filter is fed on every sample, spike removal or not
FilterSampleBoth(g, x) ==
    LET s1 == IF g.enable_baseline_correction /\ g.baseline_filter # Absent
              THEN BaselineGetNewVal(g.baseline_filter, x)
              ELSE Result(g.baseline_filter, x)
        s2 == NotchStage(g.notch, s1.val)
        hp == HiPassGetNewVal(g.hp_filter, s2.val)
        s3 == IF g.spike_removal
              THEN LET r == ComputeHpf(g.morph, ToInt(s2.val))
                   IN  Result(r.st, ToFloat(r.val))
              ELSE hp
        s4 == IF g.enable_smoothing /\ g.smoothing_filter # Absent
              THEN SmoothingGetNewVal(g.smoothing_filter, s3.val)
              ELSE Result(g.smoothing_filter, s3.val)
        after == [g EXCEPT !.baseline_filter = s1.st,
                           !.notch = s2.st,
                           !.morph = IF g.spike_removal THEN s3.st ELSE g.morph,
                           !.hp_filter = hp.st,
                           !.smoothing_filter = s4.st]
    IN  IF s4.raised THEN Throw(after) ELSE Result(after, s4.val)

\* One iteration of the loop of _filter_signal, lines 287-306: the glove after
\* the sample and the value appended to out.
FilterSample(g, x) ==
    LET s1 == IF g.enable_baseline_correction /\ g.baseline_filter # Absent
              THEN BaselineGetNewVal(g.baseline_filter, x)
              ELSE Result(g.baseline_filter, x)
        s2 == NotchStage(g.notch, s1.val)
        s3 == IF g.spike_removal
              THEN LET r == ComputeHpf(g.morph, ToInt(s2.val))
                   IN  Result(r.st, ToFloat(r.val))
              ELSE HiPassGetNewVal(g.hp_filter, s2.val)
        s4 == IF g.enable_smoothing /\ g.smoothing_filter # Absent
              THEN SmoothingGetNewVal(g.smoothing_filter, s3.val)
              ELSE Result(g.smoothing_filter, s3.val)
        after == [g EXCEPT !.baseline_filter = s1.st,
                           !.notch = s2.st,
                           !.morph = IF g.spike_removal THEN s3.st ELSE g.morph,
                           !.hp_filter = IF g.spike_removal THEN g.hp_filter ELSE s3.st,
                           !.smoothing_filter = s4.st]
    IN  IF s4.raised THEN Throw(after) ELSE Result(after, s4.val)

\* mutant: each sample is averaged with the one that follows it before it
\* enters the pipeline
RECURSIVE FilterSignalFromLookahead(_, _, _)
FilterSignalFromLookahead(g, raw, k) ==
    IF k > Len(raw) THEN <<>>
    ELSE LET x == IF k < Len(raw) THEN Trunc(raw[k] + raw[k + 1], 2) ELSE raw[k]
             r == FilterSample(g, x)
         IN  IF r.raised THEN <<>>
             ELSE <<r.val>> \o FilterSignalFromLookahead(r.st, raw, k + 1)

\* _filter_signal on a whole signal, from sample k on: the list out
RECURSIVE FilterSignalFrom(_, _, _)
FilterSignalFrom(g, raw, k) ==
    IF k > Len(raw) THEN <<>>
    ELSE LET r == FilterSample(g, raw[k])
         IN  IF r.raised THEN <<>>
             ELSE <<r.val>> \o FilterSignalFrom(r.st, raw, k + 1)

FilterSignal(g, raw) == FilterSignalFrom(g, raw, 1)

\* the insertion order of the dict that decode returns
LeadOrder ==
    <<"I", "II", "V1", "V2", "V3", "V4", "V5", "V6", "III", "aVR", "aVL", "aVF">>

\* lines 133-136: np.array(signal_data, dtype=np.float64) of each decoded lead
RawSignals(decoded_leads) ==
    LET names == SelectSeq(LeadOrder, LAMBDA n : n \in DOMAIN decoded_leads)
    IN  [k \in 1 .. Len(names) |->
            [lead |-> names[k],
             samples |-> [n \in 1 .. Len(decoded_leads[names[k]]) |->
                             decoded_leads[names[k]][n] * (Unit \div 2)]]]

GloveIdle ==
    /\ gcfg = [kind |-> "none"]
    /\ glove = Unbuilt
    /\ raw_signals = <<>>
    /\ lead_signals = <<>>
    /\ out = <<>>
    /\ gpc = "idle"

\* EcgGlove(...), as gui_ecg.py line 1066 calls it
GloveConstruct ==
    /\ gpc = "new"
    /\ glove' = EcgGlove(gcfg)
    /\ gpc' = IF EcgGlove(gcfg) = Raised THEN "raised" ELSE "built"
    /\ UNCHANGED <<gcfg, raw_signals, lead_signals, out>>
    /\ UNCHANGED <<decoderVars, stageVars>>

\* decode_data, lines 126-139: a fresh decoder decodes data_bytes
GloveDecode ==
    /\ gpc = "built"
    /\ LET ch == DecodeWhole(gcfg.data_bytes)
       IN  IF NoData(ch)
           THEN /\ gpc' = "raised"
                /\ UNCHANGED <<raw_signals, lead_signals>>
           ELSE /\ gpc' = "filter"
                /\ raw_signals' = RawSignals(Leads(ch))
                /\ lead_signals' = <<>>
    /\ out' = <<>>
    /\ UNCHANGED <<gcfg, glove>>
    /\ UNCHANGED <<decoderVars, stageVars>>

\* the lead _filter_signal is working on
CurrentRaw == raw_signals[Len(lead_signals) + 1].samples

\* _filter_signal, lines 286-306: the next sample of the current lead
GloveFilterSample ==
    /\ gpc = "filter"
    /\ Len(lead_signals) < Len(raw_signals)
    /\ Len(out) < Len(CurrentRaw)
    /\ LET r == FilterSample(glove, CurrentRaw[Len(out) + 1])
       IN  /\ glove' = r.st
           /\ out' = IF r.raised THEN out ELSE Append(out, r.val)
           /\ gpc' = IF r.raised THEN "raised" ELSE "filter"
    /\ UNCHANGED <<gcfg, raw_signals, lead_signals>>
    /\ UNCHANGED <<decoderVars, stageVars>>

\* line 307 and lines 140-143: the lead is done, on to the next one
GloveLeadDone ==
    /\ gpc = "filter"
    /\ Len(lead_signals) < Len(raw_signals)
    /\ Len(out) = Len(CurrentRaw)
    /\ lead_signals' =
          Append(lead_signals,
                 [lead |-> raw_signals[Len(lead_signals) + 1].lead, samples |-> out])
    /\ out' = <<>>
    /\ UNCHANGED <<gcfg, glove, raw_signals, gpc>>
    /\ UNCHANGED <<decoderVars, stageVars>>

\* the loop of lines 140-143 is over
GloveDone ==
    /\ gpc = "filter"
    /\ Len(lead_signals) = Len(raw_signals)
    /\ gpc' = "done"
    /\ UNCHANGED <<gcfg, glove, raw_signals, lead_signals, out>>
    /\ UNCHANGED <<decoderVars, stageVars>>

GloveNext ==
    \/ GloveConstruct
    \/ GloveDecode
    \/ GloveFilterSample
    \/ GloveLeadDone
    \/ GloveDone

\* small samples of frame f, channel c of the packet of kind k the glove decodes
GloveSample(k, f, c) ==
    CASE k = 1 -> ((3 * f + 5 * c) % 9) - 4
      [] k = 2 -> IF c = 0 THEN 6 - 3 * f ELSE ((f + 1) * (c + 2)) % 7

GlovePayload(k) ==
    [n \in 1 .. (Cardinality(Frames) * FRAME_SIZE) |->
        EncodeSample(GloveSample(k, (n - 1) \div FRAME_SIZE,
                                 ((n - 1) % FRAME_SIZE) \div 2))[((n - 1) % 2) + 1]]

GlovePacket(k) ==
    MakeHeader(ECG_PACKET_TYPE) \o GlovePayload(k) \o <<ChecksumByte(GlovePayload(k))>>

GloveConfig(bytes, filters, powerline_freq, spike_removal, hp_filter_type,
            baseline, smoothing, window) ==
    [kind |-> "config",
     data_bytes |-> bytes,
     sampling_rate |-> DEFAULT_SAMPLING_RATE,
     filters |-> filters,
     powerline_freq |-> powerline_freq,
     spike_removal |-> spike_removal,
     hp_filter_type |-> hp_filter_type,
     enable_baseline_correction |-> baseline,
     enable_smoothing |-> smoothing,
     smoothing_window |-> window]

FilterLists == {<<>>, <<50>>, <<60>>, <<50, 60>>, <<60, 100, 120>>, <<55, 42>>}

GloveConfigs ==
    {GloveConfig(GlovePacket(1), fs, pf, sr, "HP015", bl, sm, 3) :
        fs \in FilterLists, pf \in {50, 60}, sr \in BOOLEAN,
        bl \in BOOLEAN, sm \in BOOLEAN}
    \cup {GloveConfig(GlovePacket(2), <<>>, pf, sr, hp, FALSE, sm, w) :
            pf \in {0, 50}, sr \in BOOLEAN, hp \in {"HP05", "HP10"},
            sm \in BOOLEAN, w \in {0, 5}}
    \cup {GloveConfig(<<SYNC_BYTE, 0>>, <<>>, 50, TRUE, "HP015", FALSE, FALSE, 5)}

DecoderIdle ==
    /\ scen = Scenario("none", <<>>, 1, 0, 0)
    /\ feed = <<>>
    /\ data = <<>>
    /\ pos = 0
    /\ i = 0
    /\ channels = EmptyChannels
    /\ pc = "idle"
    /\ leads = NoLeads
    /\ accepted = 0
    /\ steps = 0
    /\ stop = "none"
    /\ calls = 0

Init == DecoderInit /\ StageIdle /\ GloveIdle

Next == DecoderNext

Spec == Init /\ [][Next]_vars

StageInit ==
    /\ stage_cfg \in StageConfigs
    /\ stage = Unbuilt
    /\ stage_in = <<>>
    /\ stage_out = <<>>
    /\ stage_err = "none"
    /\ resets = 0
    /\ DecoderIdle
    /\ GloveIdle

SpecStage == StageInit /\ [][StageNext]_vars

GloveInit ==
    /\ gcfg \in GloveConfigs
    /\ glove = Unbuilt
    /\ raw_signals = <<>>
    /\ lead_signals = <<>>
    /\ out = <<>>
    /\ gpc = "new"
    /\ DecoderIdle
    /\ StageIdle

SpecGlove == GloveInit /\ [][GloveNext]_vars

----------------
(* Claims about the decoder *)

PacketSize == HEADER_SIZE + ECG_PAYLOAD_SIZE

\* the acquired leads of the returned mapping are exactly these channels
ReturnedChannels(ch) ==
    /\ pc = "returned"
    /\ \A n \in AcquiredLeads : leads[n] = F64Array(ch[LeadChannel(n)])

\* C1: for a valid ECG packet P1, then any garbage bytes (bytes that form a
\* header with a zero checksum included), then a valid ECG packet P2, decode
\* returns on every channel P1's 5 samples then P2's 5 samples, each once.
C1_Resynchronization ==
    (scen.kind = "resync" /\ Finished)
        => /\ channels = ExpectedChannels(scen.kinds)
           /\ ReturnedChannels(ExpectedChannels(scen.kinds))

\* C2: after the last chunk of a stream was fed to the same decoder, the
\* decoder holds the per-channel samples that one decode call on the whole
\* stream produces, wherever the stream was cut.
C2_ChunkedFeeding ==
    (scen.kind = "chunk" /\ Finished /\ feed = <<>>)
        => channels = DecodeWhole(BaseStream(scen))

\* C4: decode raises if and only if it accepted no ECG payload; once a
\* payload was accepted, garbage, invalid headers, bad payload checksums,
\* fault packets and a truncated tail do not make it raise.
C4_RaisesIffNoPayload ==
    /\ pc = "raised" => accepted = 0
    /\ pc = "returned" => accepted > 0

C4_Witness ==
    /\ pc = "returned"
    /\ scen.kind = "resync"
    /\ scen.ins = 12
    /\ accepted = 2

\* C5: in a stream of consecutive valid ECG packets, changing one byte of
\* one packet makes that packet contribute no sample while every other packet
\* still contributes exactly its own 5 samples per channel, in stream order.
C5_ChecksumSensitivity ==
    (scen.kind = "flip" /\ Finished)
        => LET kept == IF scen.at <= PacketSize
                       THEN Tail(scen.kinds)
                       ELSE <<Head(scen.kinds)>>
           IN  /\ channels = ExpectedChannels(kept)
               /\ ReturnedChannels(ExpectedChannels(kept))

\* C6: a sequence of ECG packets encoded from samples in -32768..32767
\* decodes, on each channel, to exactly the encoded values in packet order and
\* frame order; an unsigned value >= 0x8000 comes back as value - 65536.
C6_RoundTrip ==
    (scen.kind = "clean" /\ Finished)
        => /\ channels = ExpectedChannels(scen.kinds)
           /\ ReturnedChannels(ExpectedChannels(scen.kinds))

C6_Witness ==
    /\ scen.kind = "clean"
    /\ pc = "returned"
    /\ Len(scen.kinds) = MaxPackets
    /\ scen.kinds[1] = 2
    /\ channels[0][1] = -32768
    /\ leads["I"][1] = -65536

\* C7: a valid header of subtype 0x03 followed by any 10 payload bytes
\* appends no sample and the scan resumes exactly 17 bytes after its sync
\* byte; ECG packet, fault packet, ECG packet decodes to exactly 10 samples on
\* each channel, 5 from the first ECG packet and then 5 from the second.
C7_FaultOpaque ==
    /\ [][(/\ pc = "scan"
           /\ ScanBranch(data, i) = "packet"
           /\ PacketAt(data, i).packet_type = 3)
             => (channels' = channels /\ pos' = i + 17 /\ i' = i + 17)]_vars
    /\ []((scen.kind = "resync" /\ scen.ins \in FaultInsertions /\ Finished)
             => /\ \A c \in Channels : Len(channels[c]) = 10
                /\ channels = ExpectedChannels(scen.kinds)
                /\ ReturnedChannels(ExpectedChannels(scen.kinds)))

C7_Witness ==
    /\ scen.kind = "resync"
    /\ scen.ins = 10
    /\ pc = "returned"
    /\ pos = 2 * PacketSize + 17
    /\ Len(channels[0]) = 10

TruncationStops == {"trunc_header", "trunc_payload"}

\* C8: at a sync byte with fewer than 7 bytes left, or at a valid header
\* whose payload would run past the end, the scan stops without raising and
\* leaves the channels as they are; the samples of the ECG packets accepted
\* before that point are what decode returns (it raises only when there are
\* none, as in C4).
C8_CleanTruncation ==
    /\ [][(pc = "scan" /\ ScanBranch(data, i) \in TruncationStops)
             => (pc' = "convert" /\ channels' = channels)]_vars
    /\ []((Finished /\ stop \in TruncationStops)
             => /\ \A c \in Channels : Len(channels[c]) = 5 * accepted
                /\ accepted > 0 => ReturnedChannels(channels)
                /\ accepted = 0 => pc = "raised")
    /\ []((/\ scen.kind = "trunc"
           /\ scen.at >= PacketSize
           /\ scen.at < Len(BaseStream(scen))
           /\ Finished)
             => /\ channels = ExpectedChannels(<<1>>)
                /\ ReturnedChannels(ExpectedChannels(<<1>>)))

C8_Witness ==
    /\ scen.kind = "trunc"
    /\ stop = "trunc_payload"
    /\ pc = "returned"
    /\ accepted = 1
    /\ channels = ExpectedChannels(<<1>>)

----------------------------------------------------------------------------
(* Claims about the filter stages and EcgGlove *)

\* what a glove built afresh from the same arguments returns for lead k alone
FreshOutput(k) == FilterSignal(EcgGlove(gcfg), raw_signals[k].samples)

\* C3: the filtered sequence of a lead depends only on that lead's own raw
\* samples and on the filter configuration: whatever the other leads hold and
\* whichever lead is filtered first, it is what the configured pipeline gives
\* for that lead's samples from its initial state; no filter state written for
\* one lead is read for another.
C3_LeadIndependence ==
    gpc = "done"
        => \A k \in 1 .. Len(lead_signals) : lead_signals[k].samples = FreshOutput(k)

\* the frequencies of the NotchEcgFilters of the notch stage, in series order
NotchChain(notch) ==
    IF notch.kind = "multinotch"
    THEN [k \in 1 .. Len(notch.filters) |-> notch.filters[k].freq]
    ELSE <<notch.freq>>

\* C9: for every list F of notch frequencies from {50, 60, 100, 120}, of
\* length 0, 1 or more, the notch stage EcgGlove builds is exactly one
\* NotchFilter per frequency of F, in list order; powerline_freq is
\* overridden by the list.
C9_NotchSelection ==
    (/\ gpc \in {"built", "filter", "done"}
     /\ \A k \in 1 .. Len(gcfg.filters) : gcfg.filters[k] \in NotchFrequencies)
        => NotchChain(glove.notch) = gcfg.filters

\* the unsupported configuration values of the stages
StageUnsupported(cfg) ==
    \/ cfg.kind = "notch" /\ cfg.param \notin NotchFrequencies
    \/ cfg.kind = "hipass" /\ cfg.param \notin HPFilterTypes
    \/ cfg.kind = "smoothing" /\ cfg.param = 0
    \/ cfg.kind = "baseline" /\ cfg.param = 0

\* C10: a filter stage constructed with an unsupported configuration value
\* never raises, neither in its constructor nor in its per-sample operation,
\* and returns every sample unchanged.
C10_NoErrorPath ==
    StageUnsupported(stage_cfg)
        => /\ stage_err = "none"
           /\ Len(stage_out) = Len(stage_in)
           /\ \A k \in 1 .. Len(stage_in) : stage_out[k] = ToFloat(stage_in[k])

\* the stage calls of one sample, in the order of the claim: what each stage
\* is given, what it returns and the stage object it leaves
BaselineCall(g, x) ==
    IF gcfg.enable_baseline_correction
    THEN BaselineGetNewVal(g.baseline_filter, x)
    ELSE Result(g.baseline_filter, x)

NotchCall(g, x) == NotchStage(g.notch, BaselineCall(g, x).val)

MorphologyCall(g, x) == ComputeHpf(g.morph, ToInt(NotchCall(g, x).val))

HiPassCall(g, x) == HiPassGetNewVal(g.hp_filter, NotchCall(g, x).val)

SmoothingCall(g, x) ==
    LET y == IF gcfg.spike_removal
             THEN ToFloat(MorphologyCall(g, x).val)
             ELSE HiPassCall(g, x).val
    IN  IF gcfg.enable_smoothing
        THEN SmoothingGetNewVal(g.smoothing_filter, y)
        ELSE Result(g.smoothing_filter, y)

\* the sample _filter_signal takes next
NextSample == CurrentRaw[Len(out) + 1]

MorphWindow(k) == SubSeq(stage_in, k - 7, k)

\* the median compute_hpf takes of 8 values: the 5th smallest
UpperMedian(w) ==
    CHOOSE v \in {w[n] : n \in DOMAIN w} :
        /\ Cardinality({n \in DOMAIN w : w[n] < v}) <= 4
        /\ Cardinality({n \in DOMAIN w : w[n] <= v}) >= 5

\* int(0.7 * (x - median(last 8 inputs)) + 0.3 * previousOutput) for input k
MorphExpected(k, previousOutput) ==
    ToFloat(SmoothedOutput(stage_in[k] - UpperMedian(MorphWindow(k)), previousOutput))

\* C12 as stated: from a fresh MorphologyFilter the outputs for inputs 1..7
\* equal the inputs, and from the 8th input on the output is
\* int(0.7*(x - median(last 8 inputs including x)) + 0.3*previousOutput),
\* previousOutput being the filter's previous output, and the output becomes
\* the new previousOutput.
C12_MorphologyExactness ==
    stage_cfg.kind = "morph"
        => /\ \A k \in 1 .. Len(stage_out) :
                 stage_out[k] = IF k <= 7
                                THEN ToFloat(stage_in[k])
                                ELSE MorphExpected(k, ToInt(stage_out[k - 1]))
           /\ Len(stage_out) >= 8
                 => stage.previous_output = ToInt(stage_out[Len(stage_out)])

\* C12 amended: as C12, with previousOutput the output of the previous input
\* only from the 9th input on; for the 8th input it is 0, the value the
\* filter is constructed with, and not the 7th output.  The median is the 5th
\* smallest of the 8 values.
C12_MorphologySmoothed ==
    stage_cfg.kind = "morph"
        => /\ \A k \in 1 .. Len(stage_out) :
                 stage_out[k] =
                     IF k <= 7
                     THEN ToFloat(stage_in[k])
                     ELSE MorphExpected(k, IF k = 8 THEN 0 ELSE ToInt(stage_out[k - 1]))
           /\ stage # Unbuilt
                 => stage.previous_output =
                        IF Len(stage_out) >= 8 THEN ToInt(stage_out[Len(stage_out)]) ELSE 0

C12_Witness ==
    /\ stage_cfg.kind = "morph"
    /\ Len(stage_out) >= 9
    /\ stage_out[7] = ToFloat(12)
    /\ stage_out[8] = ToFloat(-13)
    /\ stage_out[9] = ToFloat(-3)
    /\ stage.previous_output = -3

\* the values a HiPassFilter h returns for the inputs samples[k], samples[k+1], ...
RECURSIVE HiPassRun(_, _, _)
HiPassRun(h, samples, k) ==
    IF k > Len(samples) THEN <<>>
    ELSE LET r == HiPassGetNewVal(h, ToFloat(samples[k]))
         IN  <<r.val>> \o HiPassRun(r.st, samples, k + 1)

\* C13: after any sequence of get_new_val calls clear_values zeroes the six
\* history cells xv[0..2], yv[0..2], so that the filter equals a freshly
\* constructed one of the same type; the outputs of every trial after a
\* reset are those a fresh filter gives for the trial's inputs.
C13_ResetDeterminism ==
    /\ [][ResetHiPass
            => /\ stage'.xv = <<0, 0, 0>>
               /\ stage'.yv = <<0, 0, 0>>
               /\ stage' = HiPassFilter(stage_cfg.param)]_vars
    /\ []((stage_cfg.kind = "hipass" /\ stage_err = "none" /\ stage # Unbuilt)
             => stage_out = HiPassRun(HiPassFilter(stage_cfg.param), stage_in, 1))

C13_Witness ==
    /\ stage_cfg = [kind |-> "hipass", param |-> "HP05"]
    /\ resets = MaxResets
    /\ stage_in = <<12, -7, 12>>
    /\ stage.yv[3] # 0
    /\ stage_out = HiPassRun(HiPassFilter("HP05"), <<12, -7, 12>>, 1)

\* the 12 standard leads; the first 8 in channel order
StandardLeads ==
    <<"I", "II", "V1", "V2", "V3", "V4", "V5", "V6", "III", "aVR", "aVL", "aVF">>

\* the shortest of the 8 raw channels
MinChannelLength ==
    CHOOSE n \in {Len(channels[c]) : c \in Channels} :
        \A c \in Channels : n <= Len(channels[c])

\* C14: every successful decode returns exactly the 12 standard leads, all of
\* the length of the shortest of the 8 raw channels; channel 0 is lead I,
\* channel 1 lead II and channels 2..7 leads V1..V6.
C14_TwelveLeads ==
    pc = "returned"
        => /\ DOMAIN leads = {StandardLeads[k] : k \in 1 .. 12}
           /\ \A n \in DOMAIN leads : Len(leads[n]) = MinChannelLength
           /\ \A c \in Channels :
                 \A k \in 1 .. MinChannelLength :
                     leads[StandardLeads[c + 1]][k] = 2 * channels[c][k]

C14_Witness ==
    /\ pc = "returned"
    /\ scen.kind = "resync"
    /\ scen.ins = 12
    /\ Cardinality(DOMAIN leads) = 12
    /\ Len(leads["aVF"]) = 10
    /\ leads["II"] # leads["V1"]

\* byte k of the stream of the running call, counted from 0
Byte(k) == data[k + 1]

\* the 7 bytes at offset k start with a sync byte and are not an accepted
\* header: byte 1 is not 0x17, byte 2 is not 0x00 or their sum mod 256 is not 0
RejectedHeaderAt(k) ==
    /\ k + 7 <= Len(data)
    /\ Byte(k) = 128
    /\ \/ Byte(k + 1) # 23
       \/ Byte(k + 2) # 0
       \/ (Byte(k) + Byte(k + 1) + Byte(k + 2) + Byte(k + 3)
             + Byte(k + 4) + Byte(k + 5) + Byte(k + 6)) % 256 # 0

\* the insertions made of spurious sync bytes only
SyncOnlyInsertions == {2, 3}

\* C15: whenever the 7 bytes at a sync byte are not an accepted header the
\* cursor advances by exactly one byte and no sample is appended; so a valid
\* ECG packet whose sync byte comes right after a spurious 0x80 is decoded.
C15_ByteAtATime ==
    /\ [][(pc = "scan" /\ RejectedHeaderAt(i))
            => (i' = i + 1 /\ pc' = "scan" /\ channels' = channels)]_vars
    /\ []((scen.kind = "resync" /\ scen.ins \in SyncOnlyInsertions /\ Finished)
             => /\ channels = ExpectedChannels(scen.kinds)
                /\ ReturnedChannels(ExpectedChannels(scen.kinds)))

C15_Witness ==
    /\ scen.kind = "resync"
    /\ scen.ins = 3
    /\ pc = "returned"
    /\ accepted = 2
    /\ i = 2 * PacketSize + 3
    /\ channels = ExpectedChannels(<<1, 2>>)

\* the sum of the n bytes from offset k on
RECURSIVE ByteSum(_, _)
ByteSum(k, n) == IF n = 0 THEN 0 ELSE Byte(k) + ByteSum(k + 1, n - 1)

\* an accepted ECG header at offset k whose complete 81-byte payload fails
\* the checksum
BadEcgPayloadAt(k) ==
    /\ k + 88 <= Len(data)
    /\ Byte(k) = 128
    /\ Byte(k + 1) = 23
    /\ Byte(k + 2) = 0
    /\ Byte(k + 5) = 81
    /\ ByteSum(k, 7) % 256 = 0
    /\ ByteSum(k + 7, 81) % 256 # 0

\* C16: when an ECG header is accepted and its complete 81-byte payload fails
\* the checksum, no data byte of the payload is decoded, the channel buffers
\* are unchanged and the scan resumes right after the payload, 88 bytes after
\* the packet's sync byte.
C16_BadPayloadSkipped ==
    /\ [][(pc = "scan" /\ BadEcgPayloadAt(i))
            => (channels' = channels /\ i' = i + 88 /\ pos' = i + 88)]_vars
    /\ []((scen.kind = "resync" /\ scen.ins = 12 /\ Finished)
             => /\ channels = ExpectedChannels(scen.kinds)
                /\ ReturnedChannels(ExpectedChannels(scen.kinds)))
    /\ []((scen.kind = "flip" /\ scen.at > HEADER_SIZE /\ scen.at <= PacketSize
             /\ Finished)
             => channels = ExpectedChannels(Tail(scen.kinds)))

C16_Witness ==
    /\ scen.kind = "resync"
    /\ scen.ins = 12
    /\ pc = "scan"
    /\ i = 2 * PacketSize
    /\ pos = 2 * PacketSize
    /\ accepted = 1
    /\ channels = ExpectedChannels(<<1>>)

\* 7 bytes at offset k that start with 0x80, 0x17, 0x00, carry subtype 0x51
\* in byte 5 and sum to 0 mod 256, followed by 81 bytes that sum to 0 mod 256
AcceptedBlockAt(k) ==
    /\ k + 88 <= Len(data)
    /\ Byte(k) = 128
    /\ Byte(k + 1) = 23
    /\ Byte(k + 2) = 0
    /\ Byte(k + 5) = 81
    /\ ByteSum(k, 7) % 256 = 0
    /\ ByteSum(k + 7, 81) % 256 = 0

\* the signed 16-bit value of the two bytes at offset k, low byte first
Int16At(k) ==
    LET u == Byte(k) + 256 * Byte(k + 1)
    IN  IF u >= 32768 THEN u - 65536 ELSE u

\* the 5 samples of channel c in the 81-byte block at offset k
BlockSamples(k, c) == [f \in 1 .. 5 |-> Int16At(k + 16 * (f - 1) + 2 * c)]

\* some channel grows in this step
Appends == \E c \in Channels : Len(channels'[c]) > Len(channels[c])

\* C17: every sample appended to a channel buffer comes from an 81-byte
\* block whose bytes sum to 0 mod 256 and which directly follows 7 bytes that
\* start with 0x80, 0x17, 0x00, carry subtype 0x51 in byte 5 and sum to 0 mod
\* 256; nothing is appended from a block that fails either checksum.
C17_AcceptanceInvariant ==
    [][Appends
         => /\ pc = "scan"
            /\ AcceptedBlockAt(i)
            /\ \A c \in Channels :
                  channels'[c] = channels[c] \o BlockSamples(i + 7, c)]_vars

C17_Witness ==
    /\ scen.kind = "flip"
    /\ scen.kinds = <<3, 2>>
    /\ scen.at = 4
    /\ pc = "returned"
    /\ accepted = 1
    /\ Len(channels[0]) = 5

\* the samples _filter_signal has processed so far, over all leads
RECURSIVE SamplesDone(_)
SamplesDone(k) ==
    IF k = 0 THEN Len(out) ELSE Len(lead_signals[k].samples) + SamplesDone(k - 1)

\* C18: per sample exactly one of the two is called.  With spike_removal only
\* MorphologyFilter.compute_hpf is, and the HiPassFilter histories xv, yv stay
\* as constructed for the whole signal; without it only
\* HiPassFilter.get_new_val is, and the morphology buffer and previous_output
\* stay as constructed.
C18_MorphologyOrHighPass ==
    /\ [][GloveFilterSample
            => IF gcfg.spike_removal
               THEN /\ glove'.morph = MorphologyCall(glove, NextSample).st
                    /\ glove'.hp_filter = glove.hp_filter
               ELSE /\ glove'.hp_filter = HiPassCall(glove, NextSample).st
                    /\ glove'.morph = glove.morph]_vars
    /\ [](gpc \in {"built", "filter", "done"}
             => IF gcfg.spike_removal
                THEN /\ glove.hp_filter.xv = <<0, 0, 0>>
                     /\ glove.hp_filter.yv = <<0, 0, 0>>
                     /\ Len(glove.morph.buffer.buffer)
                           = Min(8, SamplesDone(Len(lead_signals)))
                ELSE /\ glove.morph.buffer.buffer = <<>>
                     /\ ~glove.morph.buffer.filled
                     /\ glove.morph.previous_output = 0)

C18_Witness ==
    /\ gpc = "filter"
    /\ Len(lead_signals) >= 2
    /\ gcfg.spike_removal
    /\ gcfg.filters = <<60, 100, 120>>
    /\ glove.morph.buffer.filled
    /\ glove.morph.previous_output # 0
    /\ glove.hp_filter.yv = <<0, 0, 0>>

\* C19: a NotchEcgFilter built with a frequency outside {50, 60, 100, 120}
\* has a zero-length coefficient table; get_new_val returns every input
\* unchanged and the ring buffer and the write index never change.
C19_UnsupportedNotchIdentity ==
    (/\ stage_cfg.kind = "notch"
     /\ stage_cfg.param \notin {50, 60, 100, 120}
     /\ stage # Unbuilt)
        => /\ stage_err = "none"
           /\ stage.ar_notch = <<>>
           /\ stage.max_notch = 0
           /\ stage.ar_result = <<>>
           /\ stage.indx = 0
           /\ stage_out = [k \in 1 .. Len(stage_in) |-> ToFloat(stage_in[k])]

C19_Witness ==
    /\ stage_cfg = [kind |-> "notch", param |-> 55]
    /\ stage.kind = "notch"
    /\ stage_in = <<12, -7, -7, 12, 12>>
    /\ stage_out = <<12000, -7000, -7000, 12000, 12000>>

\* the input received k samples before sample n, 0 before the first sample
Earlier(n, k) == IF n - k >= 1 THEN ToFloat(stage_in[n - k]) ELSE 0

\* the sum over k = from .. N-1 of coef[k] times the input k samples before n
RECURSIVE Convolution(_, _, _)
Convolution(coef, n, from) ==
    IF from >= Len(coef) THEN 0
    ELSE FixMul(Earlier(n, from), coef[from + 1]) + Convolution(coef, n, from + 1)

\* C20: for a table of N > 0 coefficients the write index is in 0..N-1 and
\* advances by exactly 1 modulo N per sample; the value returned for sample n
\* is the sum over k = 0..N-1 of coef[k] times the input received k samples
\* earlier (0 before the first sample); only the slot at the write index is
\* overwritten, with the sample.
C20_NotchRingBuffer ==
    /\ [][(SampleNotch /\ stage.max_notch > 0)
            => /\ stage'.indx = (stage.indx + 1) % stage.max_notch
               /\ stage'.ar_result[stage.indx + 1] = ToFloat(stage_in'[Len(stage_in')])
               /\ \A j \in 0 .. stage.max_notch - 1 :
                     j # stage.indx => stage'.ar_result[j + 1] = stage.ar_result[j + 1]]_vars
    /\ []((stage_cfg.kind = "notch" /\ stage # Unbuilt /\ stage.max_notch > 0)
             => /\ stage.max_notch = Len(stage.ar_notch)
                /\ stage.indx \in 0 .. stage.max_notch - 1
                /\ stage.indx = Len(stage_in) % stage.max_notch
                /\ Len(stage_out) = Len(stage_in)
                /\ \A n \in 1 .. Len(stage_out) :
                      stage_out[n] = Convolution(stage.ar_notch, n, 0))

C20_Witness ==
    /\ stage_cfg = [kind |-> "notch", param |-> 60]
    /\ stage.kind = "notch"
    /\ Len(stage_in) = 2 * stage.max_notch + 1
    /\ stage.indx = 1
    /\ stage_in[Len(stage_in)] = 12
    /\ stage_in[Len(stage_in) - 1] = -7
    /\ stage_out[Len(stage_in)] = 11532 + 189 + FixMul(ToFloat(stage_in[Len(stage_in) - 2]), 0)

\* the last min(n, w) inputs up to input n, in arrival order, as floats
LastInputs(n, w) ==
    LET first == IF n > w THEN n - w + 1 ELSE 1
    IN  [k \in 1 .. (n - first + 1) |-> ToFloat(stage_in[first + k - 1])]

\* the sum of the first n elements of a sequence of floats
RECURSIVE FloatSum(_, _)
FloatSum(xs, n) == IF n = 0 THEN 0 ELSE xs[n] + FloatSum(xs, n - 1)

\* the arithmetic mean of a non-empty sequence of floats
Mean(xs) == Trunc(FloatSum(xs, Len(xs)), Len(xs))

\* C21: for a window size w >= 1, after n samples the buffer of a
\* SmoothingFilter holds exactly the last min(n, w) inputs in arrival order,
\* never more than w, and the value returned for sample n is the arithmetic
\* mean of those min(n, w) inputs.
C21_SmoothingMean ==
    (/\ stage_cfg.kind = "smoothing"
     /\ stage_cfg.param >= 1
     /\ stage # Unbuilt)
        => /\ stage_err = "none"
           /\ Len(stage.buffer) <= stage_cfg.param
           /\ stage.buffer = LastInputs(Len(stage_in), stage_cfg.param)
           /\ Len(stage_out) = Len(stage_in)
           /\ \A n \in 1 .. Len(stage_out) :
                 stage_out[n] = Mean(LastInputs(n, stage_cfg.param))

C21_Witness ==
    /\ stage_cfg = [kind |-> "smoothing", param |-> 3]
    /\ stage_in = <<12, -7, -7, 12, 12>>
    /\ stage.buffer = <<-7000, 12000, 12000>>
    /\ stage_out[2] = 2500
    /\ stage_out[5] = 5666

\* the first n elements of a sequence, all of it when it is shorter
Prefix(xs, n) == SubSeq(xs, 1, Min(n, Len(xs)))

\* what may follow the first n samples of a signal instead of its own samples
AltTails == {<<>>, <<9000>>, <<-11000, 500>>}

\* one per-sample call on a stage object, whatever its class
StageCall(st, x) ==
    CASE st.kind = "notch"      -> NotchGetNewVal(st, x)
      [] st.kind = "multinotch" -> MultiNotchGetNewVal(st, x)
      [] st.kind = "hipass"     -> HiPassGetNewVal(st, x)
      [] st.kind = "baseline"   -> BaselineGetNewVal(st, x)
      [] st.kind = "smoothing"  -> SmoothingGetNewVal(st, x)
      [] st.kind = "morph"      -> LET r == ComputeHpf(st, ToInt(x))
                                   IN  Result(r.st, ToFloat(r.val))

\* the values a stage object returns for the samples xs[k], xs[k+1], ...
RECURSIVE StageRun(_, _, _)
StageRun(st, xs, k) ==
    IF k > Len(xs) THEN <<>>
    ELSE LET r == StageCall(st, xs[k])
         IN  IF r.raised THEN <<>>
             ELSE <<r.val>> \o StageRun(r.st, xs, k + 1)

\* the stage objects of the glove
GloveStages ==
    {glove.notch, glove.hp_filter, glove.morph,
     glove.baseline_filter, glove.smoothing_filter} \ {Absent}

\* C22: for every filter stage and for the composed pipeline the output at
\* sample n is a function of the inputs at samples <= n only: from the same
\* state, two signals that agree on their first n samples give the same
\* first n outputs, whatever follows; and a value once appended to out is
\* not changed by the samples that follow.
C22_Causality ==
    /\ []((gpc = "filter" /\ out = <<>> /\ Len(lead_signals) < Len(raw_signals))
             => \A n \in 0 .. Len(CurrentRaw) :
                   \A tail \in AltTails :
                       LET other == Prefix(CurrentRaw, n) \o tail
                       IN  /\ Prefix(FilterSignal(glove, other), n)
                                = Prefix(FilterSignal(glove, CurrentRaw), n)
                           /\ \A st \in GloveStages :
                                 Prefix(StageRun(st, other, 1), n)
                                    = Prefix(StageRun(st, CurrentRaw, 1), n))
    /\ [][GloveFilterSample => Prefix(out', Len(out)) = out]_vars
    /\ []((gpc = "filter" /\ lead_signals = <<>>)
             => out = Prefix(FilterSignal(EcgGlove(gcfg), CurrentRaw), Len(out)))

C22_Witness ==
    /\ gpc = "filter"
    /\ out = <<>>
    /\ Len(lead_signals) = 3
    /\ gcfg.enable_smoothing
    /\ gcfg.enable_baseline_correction
    /\ gcfg.spike_removal
    /\ Len(FilterSignal(glove, CurrentRaw)) = 5
    /\ FilterSignal(glove, Prefix(CurrentRaw, 2) \o <<-11000, 500>>)
          # Prefix(FilterSignal(glove, CurrentRaw), 4)

\* C23: at every index k of the limb leads I (channel 0) and II (channel 1)
\* III[k] = II[k] - I[k], aVR[k] = -(I[k] + II[k]) / 2,
\* aVL[k] = I[k] - II[k] / 2 and aVF[k] = II[k] - I[k] / 2; the acquired
\* leads I, II, V1..V6 are returned with their decoded values.  The leads are
\* held in halves, so each equation is stated doubled.
C23_LeadDerivation ==
    pc = "returned"
        => /\ \A c \in Channels :
                 /\ Len(leads[StandardLeads[c + 1]]) = Len(channels[c])
                 /\ \A k \in 1 .. Len(channels[c]) :
                       leads[StandardLeads[c + 1]][k] = 2 * channels[c][k]
           /\ \A k \in 1 .. Len(leads["I"]) :
                 /\ leads["III"][k] = leads["II"][k] - leads["I"][k]
                 /\ 2 * leads["aVR"][k] = -(leads["I"][k] + leads["II"][k])
                 /\ 2 * leads["aVL"][k] = 2 * leads["I"][k] - leads["II"][k]
                 /\ 2 * leads["aVF"][k] = 2 * leads["II"][k] - leads["I"][k]

C23_Witness ==
    /\ pc = "returned"
    /\ scen.kind = "clean"
    /\ scen.kinds = <<2>>
    /\ leads["I"][1] = -65536
    /\ leads["III"][1] = leads["II"][1] + 65536
    /\ leads["aVR"][1] # leads["aVL"][1]
    /\ \E k \in 1 .. 5 : leads["aVF"][k] % 2 = 1

\* C24: when a limb channel (I or II) is empty at the end of a decode call,
\* the call does not fail and its result holds the four derived leads III,
\* aVR, aVL and aVF as empty sequences.
C24_EmptyLimbLeads ==
    (Finished /\ (channels[0] = <<>> \/ channels[1] = <<>>))
        => /\ pc = "returned"
           /\ \A name \in DerivedLeads :
                 name \in DOMAIN leads /\ leads[name] = <<>>

\* C25: between any two steps of a decode all 8 channel buffers have the
\* same length, 5 times the number of ECG payloads accepted so far in the
\* call; accepting an ECG payload appends to every channel one sample per
\* frame, frame 0 first.
C25_ChannelLengths ==
    /\ [](\A c \in Channels : Len(channels[c]) = 5 * accepted)
    /\ [][accepted' = accepted + 1
            => \A c \in Channels :
                  /\ Len(channels'[c]) = Len(channels[c]) + 5
                  /\ SubSeq(channels'[c], 1, Len(channels[c])) = channels[c]
                  /\ \A f \in 0 .. 4 :
                        channels'[c][Len(channels[c]) + f + 1]
                           = Int16At(i + HEADER_SIZE + FRAME_SIZE * f + 2 * c)]_vars

C25_Witness ==
    /\ pc = "scan"
    /\ accepted = 1
    /\ i = PacketSize
    /\ scen.kind = "clean"
    /\ scen.kinds = <<2, 3>>
    /\ \A c \in Channels : Len(channels[c]) = 5
    /\ channels[0][1] # channels[0][5]
    /\ channels[0][1] # channels[7][1]

\* C26: within a decode call neither cursor decreases or passes the end of
\* the buffer; a _find_next_packet call that returns a packet returns a
\* position at least 7 beyond the position it was started at; every
\* iteration of the scan loop either moves the cursor forward or ends the
\* scan, so a call makes at most len(data) iterations.
C26_Progress ==
    /\ [](pos <= i /\ i <= Len(data) /\ steps <= Len(data))
    /\ [][calls' = calls => (i' >= i /\ pos' >= pos)]_vars
    /\ [][(pc = "scan" /\ ScanBranch(data, i) = "packet")
            => (pos' >= pos + HEADER_SIZE /\ pos' <= Len(data))]_vars
    /\ [][steps' = steps + 1
            => (pc = "scan" /\ i < Len(data) /\ (i' > i \/ pc' = "convert"))]_vars
    /\ [](pc = "scan" => (i < Len(data) \/ ScanBranch(data, i) = "end"))

C26_Witness ==
    /\ Finished
    /\ scen.kind = "flip"
    /\ accepted = 1
    /\ pos = PacketSize
    /\ i > pos + HEADER_SIZE
    /\ steps = 1 + (i - pos) + (IF stop = "end" THEN 0 ELSE 1)

\* C27: when the scan stops early at cursor i, at a sync byte with fewer
\* than 7 bytes left or at an accepted ECG or fault header whose payload runs
\* past the end, no complete valid ECG packet (valid header of subtype 0x51
\* and 81 bytes that sum to 0 mod 256) lies within the buffer at a start
\* position >= i.
C27_TruncationLosesNothing ==
    (pc # "scan" /\ stop \in TruncationStops)
        => \A k \in i .. Len(data) : ~AcceptedBlockAt(k)

C27_Witness ==
    /\ Finished
    /\ stop = "trunc_payload"
    /\ accepted = 1
    /\ Len(data) - i = PacketSize - 1
    /\ Byte(i + 5) = ECG_PACKET_TYPE
    /\ AcceptedBlockAt(0)

\* a valid header at offset k whose subtype is neither 0x51 nor 0x03
UnknownHeaderAt(k) ==
    /\ k + HEADER_SIZE <= Len(data)
    /\ Byte(k) = 128
    /\ Byte(k + 1) = 23
    /\ Byte(k + 2) = 0
    /\ ByteSum(k, 7) % 256 = 0
    /\ Byte(k + 5) \notin {81, 3}

\* C28: at an accepted header whose subtype is neither 0x51 nor 0x03 the
\* cursor advances by exactly 7 bytes, no sample is appended and nothing is
\* counted as accepted, and the scan goes on; when the header is the last 7
\* bytes of the buffer the call ends because the buffer is used up, not as a
\* truncation.
C28_UnknownSubtype ==
    [][(pc = "scan" /\ UnknownHeaderAt(i))
          => /\ i' = i + 7
             /\ pos' = i + 7
             /\ channels' = channels
             /\ accepted' = accepted
             /\ IF i + 7 < Len(data)
                THEN pc' = "scan" /\ stop' = "none"
                ELSE pc' = "convert" /\ stop' = "loop"]_vars

C28_Witness ==
    /\ Finished
    /\ scen.kind = "trunc"
    /\ Len(data) = PacketSize + HEADER_SIZE
    /\ UnknownHeaderAt(PacketSize)
    /\ pos = Len(data)
    /\ stop = "loop"
    /\ accepted = 1

(* The legacy scanner, EcgGlove.decode_data of test_ecg.py. *)

\* lines 59-66: value = (msb << 8) | lsb, made signed when bit 15 is set
LegacyDecodeSample(lsb, msb) ==
    LET value == msb * 256 + lsb
    IN  IF value >= 32768 THEN value - 65536 ELSE value

\* lines 51-67: 5 frames of 16 bytes, one sample per channel and frame
RECURSIVE LegacyDecodeChunk(_, _, _)
LegacyDecodeChunk(ch, data_chunk, frame_start) ==
    IF frame_start >= 80
    THEN ch
    ELSE LET frame == Slice(data_chunk, frame_start, frame_start + 16)
         IN  LegacyDecodeChunk(
                 [c \in Channels |->
                     Append(ch[c],
                            LegacyDecodeSample(frame[2 * c + 1], frame[2 * c + 2]))],
                 data_chunk, frame_start + 16)

\* lines 34-83: the channels when the while loop is left, from index k on
RECURSIVE LegacyScan(_, _, _)
LegacyScan(data_bytes, k, ch) ==
    LET size == Len(data_bytes)
    IN  IF k >= size THEN ch
        ELSE IF ~(data_bytes[k + 1] = 128 /\ k + 7 < size)
        THEN LegacyScan(data_bytes, k + 1, ch)
        ELSE IF ~(data_bytes[k + 2] = 23 /\ data_bytes[k + 3] = 0)
        THEN LegacyScan(data_bytes, k + 1, ch)
        ELSE LET header_sum  == Sum(Slice(data_bytes, k, k + 7)) % 256
                 packet_type == data_bytes[k + 6]
             IN  IF header_sum # 0
                 THEN LegacyScan(data_bytes, k + 1, ch)
                 ELSE IF packet_type = 81
                 THEN IF k + 7 + 81 <= size
                      THEN LET data_chunk == Slice(data_bytes, k + 7, k + 7 + 81)
                           IN  LegacyScan(data_bytes, k + 7 + 81,
                                          IF Sum(data_chunk) % 256 = 0
                                          THEN LegacyDecodeChunk(ch, data_chunk, 0)
                                          ELSE ch)
                      ELSE ch
                 ELSE IF packet_type = 3
                 THEN IF k + 7 + 10 <= size
                      THEN LegacyScan(data_bytes, k + 7 + 10, ch)
                      ELSE ch
                 ELSE LegacyScan(data_bytes, k + 1, ch)

\* lines 31-83: the channel lists decode_data has built after its loop
LegacyChannels(data_bytes) == LegacyScan(data_bytes, 0, EmptyChannels)

\* lines 89-93: no channel has a sample
LegacyRaises(data_bytes) ==
    \A c \in Channels : LegacyChannels(data_bytes)[c] = <<>>

\* C29: for every input buffer the legacy decode_data and
\* ECGPacketDecoder.decode accept the same ECG packets: the raw samples of
\* channels 0..7 are the same, and one raises its ValueError exactly when the
\* other does.
C29_DecodersAgree ==
    Finished
        => /\ channels = LegacyChannels(data)
           /\ (pc = "raised") <=> LegacyRaises(data)

\* C30: every decode call starts from empty channel buffers and offset 0,
\* so whatever calls were made before on the same decoder, returning or
\* raising, a call ends with what a fresh decoder gives for the same bytes:
\* the same channels, the same lead mapping, or the same ValueError.
C30_NoCarriedState ==
    /\ [][calls' = calls + 1
            => (channels' = EmptyChannels /\ pos' = 0 /\ i' = 0)]_vars
    /\ [](Finished
            => /\ channels = DecodeWhole(data)
               /\ (pc = "raised") <=> NoData(DecodeWhole(data))
               /\ pc = "returned" => leads = Leads(DecodeWhole(data)))

C30_Witness ==
    /\ scen.kind = "chunk"
    /\ scen.kinds = <<3, 2>>
    /\ scen.at = PacketSize
    /\ calls = 2
    /\ pc = "returned"
    /\ channels = ExpectedChannels(<<2>>)
    /\ leads["I"] = F64Array(ChannelSamples(2, 0))

====
